---- MODULE Spec2Model ----
(***************************************************************************)
(* Order / payment reconciliation core of the food-ordering backend:       *)
(* the order and payment routes, the payment service's notify handling,    *)
(* and the Order, Dish and User model methods they call.                   *)
(*                                                                         *)
(* Granularity: Node runs the code between two awaits without              *)
(* interruption, so one action is one awaited store or gateway operation   *)
(* taking effect, together with the synchronous code that follows it up    *)
(* to the point where the next awaited operation is issued.  A model       *)
(* instance is a private copy of the row as it was read; save() writes     *)
(* back only the attributes whose value differs from the value the         *)
(* instance held after its last read or save.                              *)
(***************************************************************************)
EXTENDS Integers, Sequences, FiniteSets, TLC

\* ------------------------------------------------------------------ bounds
InitStock == 3          \* initial stock of the finite-stock dish
MaxQty == 2             \* largest quantity on one cart line
MaxFail == 1            \* how many store writes may throw in one behaviour
MaxExpire == 1          \* how many times a dedup key may expire
MaxInFlight == 2        \* how many requests are served at once, where bounded
MaxRecords == 3         \* ledger length up to which points are spent
DayTicks == 2           \* clock readings told apart within one calendar day
MaxDay == 4             \* calendar days the clock runs through

\* ------------------------------------------------------- program constants
Unlimited == -1
PointsRatePct == 5
SilverSpent == 500
GoldSpent == 1000
PlatinumSpent == 5000
SignInPoints == 5

\* --------------------------------------------------------------- universes
OrderIds == {1, 2}
Users == {"u1", "u2"}
Owner == "u1"
FiniteDish == "d1"
UnlimitedDish == "d2"
Dishes == {FiniteDish, UnlimitedDish}

Notifiers == {"n1", "n2"}
Pollers == {"p1"}
Cancellers == {"x1", "x2"}
Staff == {"m1"}
Refunders == {"r1"}
Creators == {"c1", "c2"}
RefundNotifiers == {"rn1"}
Payers == {"b1"}
Raters == {"t1"}
SignIners == {"s1", "s2"}
Spenders == {"y1"}
Procs == Notifiers \cup Pollers \cup Cancellers \cup Staff \cup Refunders \cup Creators
         \cup RefundNotifiers \cup Payers \cup Raters
         \cup SignIners \cup Spenders

NoOrder == [absent |-> TRUE]
NoUser == [absent |-> TRUE]
NoReq == [absent |-> TRUE]
NoDish == [absent |-> TRUE]
NoResult == [absent |-> TRUE]
NoOut == [by |-> "none", body |-> "none"]
Blank == [tgt |-> 0, o |-> NoOrder, u |-> NoUser, d |-> NoDish, idx |-> 0,
          req |-> NoReq, res |-> NoResult]

VARIABLES
    orders,     \* orders table: order id -> row, or NoOrder
    users,      \* users table: user id -> row
    ledger,     \* point_records table, in insertion order
    stock,      \* dishes table: dish id -> stock (-1 is unlimited)
    redisKey,   \* payment_notify:<orderNo> keys that are live
    gwPaid,     \* gateway: the order number has a successful transaction
    gwRefunds,  \* gateway: refund requests accepted, per order number
    pc,         \* each request's position in its handler
    loc,        \* each request's locals: tgt (order id), o / u / d (Order, User
                \* and Dish instance), idx (line-item loop), req (validated body),
                \* res (handlePaymentNotify's result)
    out,        \* the response sent by the step just taken (NoOut if none was)
    reserved,   \* history: finite-dish quantity of the orders answered "created"
    failures,   \* store writes that have thrown so far
    expiries    \* dedup keys that have expired so far

dbVars == <<orders, users, ledger, stock>>
extVars == <<redisKey, gwPaid, gwRefunds>>
procVars == <<pc, loc>>
envVars == <<reserved, failures, expiries>>
vars == <<orders, users, ledger, stock, redisKey, gwPaid, gwRefunds,
          pc, loc, out, reserved, failures, expiries>>

\* ----------------------------------------------------------------- helpers
Exists(o) == orders[o] # NoOrder

\* Model.save(): UPDATE with the changed attributes only.
Save(row, before, after) ==
    [f \in DOMAIN row |-> IF after[f] # before[f] THEN after[f] ELSE row[f]]

RECURSIVE SumQty(_, _)
SumQty(items, d) ==
    IF items = <<>> THEN 0
    ELSE (IF Head(items).dishId = d THEN Head(items).quantity ELSE 0)
         + SumQty(Tail(items), d)

\* --------------------------------------------------------- Order model
\* Dish.price of the two dishes on the menu
DishPrice(d) == IF d = FiniteDish THEN 19 ELSE 21

\* Dish.prototype.calculateTotalPrice
calculateTotalPrice(basePrice, addonPrice, quantity) == (basePrice + addonPrice) * quantity

\* A JavaScript value that is a number, or the text of a DECIMAL(8,2)
\* attribute as the mysql dialect (the configured default) reads it back,
\* "5.00" for 5. The model keeps whole amounts.
Number(n) == [isString |-> FALSE, value |-> n]
DecimalString(n) == [isString |-> TRUE, value |-> n]

\* the number of digits of the whole amount n
RECURSIVE DigitsOf(_)
DigitsOf(n) == IF n < 10 THEN 1 ELSE 1 + DigitsOf(n \div 10)

RECURSIVE Pow10(_)
Pow10(k) == IF k = 0 THEN 1 ELSE 10 * Pow10(k - 1)

\* the sum the same operands have as numbers
NumericPlus(n, v) == n + v.value

\* the amount read from JavaScript's n + v for a whole number n: the sum when
\* v is a number, and when v is a decimal string the text of n followed by
\* that of v (19 + "5.00" is "195.00")
JsPlus(n, v) ==
    IF v.isString THEN n * Pow10(DigitsOf(v.value)) + v.value
    ELSE n + v.value

\* Merchant.prototype.getDeliveryFee, for the merchant of the menu
\* (deliveryFee 5, freeDeliveryThreshold 40): the number 0, or the
\* merchant's deliveryFee attribute as read from the store
getDeliveryFee(subtotal) ==
    IF subtotal >= 40 THEN Number(0) ELSE DecimalString(5)

\* the snapshot line the create route pushes for one cart line
OrderItem(item) ==
    [ dishId |-> item.dishId, quantity |-> item.quantity,
      price |-> DishPrice(item.dishId),
      totalPrice |-> calculateTotalPrice(DishPrice(item.dishId), 0, item.quantity) ]

RECURSIVE Subtotal(_)
Subtotal(items) ==
    IF items = <<>> THEN 0
    ELSE calculateTotalPrice(DishPrice(Head(items).dishId), 0, Head(items).quantity)
         + Subtotal(Tail(items))

\* couponAmount: 5 when a coupon id is given
CouponAmount(couponId) == IF couponId # "null" THEN 5 ELSE 0

\* pointsUsed * 0.01 (request bodies carry whole hundreds of points)
PointsDiscount(pointsUsed) == pointsUsed \div 100

Max(a, b) == IF a >= b THEN a ELSE b

\* the row Order.create inserts for a validated body (column defaults included)
NewOrder(userId, body) ==
    LET subtotal == Subtotal(body.items)
        deliveryFee == getDeliveryFee(subtotal)
        discount == CouponAmount(body.couponId) + PointsDiscount(body.pointsUsed)
        total == JsPlus(subtotal, deliveryFee)
    IN
    [ userId |-> userId,
      items |-> [i \in 1..Len(body.items) |-> OrderItem(body.items[i])],
      subtotal |-> subtotal, deliveryFee |-> deliveryFee.value, discount |-> discount,
      total |-> total, payAmount |-> Max(0, total - discount),
      couponAmount |-> CouponAmount(body.couponId), pointsUsed |-> body.pointsUsed,
      status |-> "pending", payStatus |-> "unpaid", payMethod |-> "null",
      payTime |-> "null", deliveryStatus |-> "pending",
      deliveryTaskId |-> "null", actualDeliveryTime |-> "null",
      cancelReason |-> "null", cancelTime |-> "null",
      refundReason |-> "null", refundTime |-> "null", refundAmount |-> 0,
      pointsEarned |-> 0, rating |-> 0 ]

\* Order.prototype.confirm
ConfirmOk(o) == o.status = "pending"
Confirm(o) == [o EXCEPT !.status = "confirmed"]

\* Order.prototype.startPreparing
StartPreparingOk(o) == o.status = "confirmed"
StartPreparing(o) == [o EXCEPT !.status = "preparing"]

\* Order.prototype.ready
ReadyOk(o) == o.status = "preparing"
Ready(o) == [o EXCEPT !.status = "ready"]

\* Order.prototype.startDelivery
StartDeliveryOk(o) == o.status = "ready"
StartDelivery(o, task) ==
    [o EXCEPT !.status = "delivering", !.deliveryStatus = "delivering",
              !.deliveryTaskId = task]

\* Order.prototype.completeDelivery
CompleteDeliveryOk(o) == o.status = "delivering"
CompleteDelivery(o, now) ==
    [o EXCEPT !.status = "completed", !.deliveryStatus = "delivered",
              !.actualDeliveryTime = now]

\* variant: cancel() still accepted while the order is in preparation
CancelOkInPreparation(o) == o.status \in {"pending", "confirmed", "preparing"}

\* Order.prototype.cancel
CancelOk(o) == o.status \in {"pending", "confirmed"}
Cancel(o, reason, now) ==
    [o EXCEPT !.status = "cancelled", !.cancelReason = reason, !.cancelTime = now]

\* variant: requestRefund recording the order total as the refund amount
RequestRefundOfTotal(o, reason, now) ==
    [o EXCEPT !.status = "refunded", !.refundReason = reason,
              !.refundTime = now, !.refundAmount = o.total]

\* variant: requestRefund taking the refunded amount off the pay amount
RequestRefundDeducting(o, reason, now) ==
    [o EXCEPT !.status = "refunded", !.refundReason = reason,
              !.refundTime = now, !.refundAmount = o.payAmount,
              !.payAmount = 0]

\* Order.prototype.requestRefund
RequestRefundOk(o) == o.status = "completed"
RequestRefund(o, reason, now) ==
    [o EXCEPT !.status = "refunded", !.refundReason = reason,
              !.refundTime = now, !.refundAmount = o.payAmount]

\* Order.prototype.addRating
AddRatingOk(o) == o.status = "completed"
AddRating(o, rating) == [o EXCEPT !.rating = rating]

\* Order.prototype.paySuccess
PaySuccess(o, payMethod, now) ==
    [o EXCEPT !.payStatus = "paid", !.payMethod = payMethod,
              !.payTime = now, !.status = "confirmed"]

\* --------------------------------------------------------- User model
calculateUserLevel(totalSpent) ==
    IF totalSpent >= PlatinumSpent THEN "platinum"
    ELSE IF totalSpent >= GoldSpent THEN "gold"
    ELSE IF totalSpent >= SilverSpent THEN "silver"
    ELSE "bronze"

NewUser == [points |-> 0, totalPoints |-> 0, totalSpent |-> 0, level |-> "bronze",
            lastSignInAt |-> 0, signInCount |-> 0]

\* User.prototype.updateSpent, with the beforeUpdate hook its save() runs
UpdateSpent(u, amount) ==
    [u EXCEPT !.totalSpent = u.totalSpent + amount,
              !.level = calculateUserLevel(u.totalSpent + amount)]

\* variant: the balance grows and the lifetime total does not
AddPointsToBalanceOnly(u, points) == [u EXCEPT !.points = u.points + points]

\* User.prototype.addPoints, the instance update
AddPoints(u, points) ==
    [u EXCEPT !.points = u.points + points, !.totalPoints = u.totalPoints + points]

\* User.prototype.addPoints, the PointRecord row
EarnRecord(userId, points, reason, balance) ==
    [userId |-> userId, type |-> "earn", points |-> points,
     reason |-> reason, balance |-> balance]

\* variant: no balance check
UsePointsNeverThrows(u, points) == FALSE

\* User.prototype.usePoints: does it throw?
UsePointsThrows(u, points) == u.points < points

\* User.prototype.usePoints, the instance update
UsePoints(u, points) == [u EXCEPT !.points = u.points - points]

\* User.prototype.usePoints, the PointRecord row
SpendRecord(userId, points, reason, balance) ==
    [userId |-> userId, type |-> "spend", points |-> 0 - points,
     reason |-> reason, balance |-> balance]

\* Clock readings (Date.now()), DayTicks to a calendar day; day 1 is the
\* first. A lastSignInAt of 0 is the column's null.
Times == DayTicks .. (DayTicks * (MaxDay + 1) - 1)

\* new Date(t).toDateString(): the calendar day of a reading
toDateString(t) == t \div DayTicks

\* this.lastSignInAt ? new Date(this.lastSignInAt).toDateString() : null
\* (-1 stands for null, which is no day)
LastSignIn(u) == IF u.lastSignInAt = 0 THEN -1 ELSE toDateString(u.lastSignInAt)

\* User.prototype.signIn: does it throw?
SignInThrows(u, now) == LastSignIn(u) = toDateString(now)

\* variant: the streak continued from a sign-in of any earlier day
StreakAlwaysContinued(u, now) == u.signInCount + 1

\* User.prototype.signIn: the streak, continued when the last sign-in is of
\* the day that Date.now() - 24h falls on
Streak(u, now) ==
    IF LastSignIn(u) = toDateString(now - DayTicks) THEN u.signInCount + 1 ELSE 1

\* User.prototype.signIn, the instance update up to addPoints' save()
SignIn(u, now) ==
    AddPoints([u EXCEPT !.signInCount = Streak(u, now), !.lastSignInAt = now],
              SignInPoints)

\* variant: the product rounded up
PointsForRoundedUp(payAmount) == (payAmount * PointsRatePct + 99) \div 100

\* Math.floor(order.payAmount * pointsRate)
PointsFor(payAmount) == (payAmount * PointsRatePct) \div 100

\* --------------------------------------------------------- Dish model
\* Dish.prototype.hasStock
hasStock(s, quantity) == s = Unlimited \/ s >= quantity

\* variant: decreaseStock without its stock check
DecreaseNeverThrows(s, quantity) == FALSE

\* variant: decreaseStock refusing to take the last units
DecreaseThrowsAtEqual(s, quantity) == s # Unlimited /\ s <= quantity

\* Dish.prototype.decreaseStock: does it throw?
DecreaseThrows(s, quantity) == s # Unlimited /\ s < quantity

\* variant: decreaseStock taking the sentinel for a count
decreaseStockOfAny(s, quantity) == s - quantity

\* Dish.prototype.decreaseStock: the stock it saves
decreaseStock(s, quantity) == IF s # Unlimited THEN s - quantity ELSE s

\* Dish.prototype.increaseStock: the stock it saves
increaseStock(s, quantity) == IF s # Unlimited THEN s + quantity ELSE s


\* ------------------------------------------------------- request plumbing
\* Request h moves on to position l with locals l2.
Step(h, l, l2) ==
    /\ pc' = [pc EXCEPT ![h] = l]
    /\ loc' = [loc EXCEPT ![h] = l2]
    /\ out' = NoOut

\* Request h answers r and ends; its locals are dropped, and the slot is free
\* for the next request of its kind.
Done(h, r) ==
    /\ pc' = [pc EXCEPT ![h] = "idle"]
    /\ loc' = [loc EXCEPT ![h] = Blank]
    /\ out' = [by |-> h, body |-> r]

\* An awaited store write of request h throws; the route's catch answers r.
Throws(h, r) ==
    /\ failures < MaxFail
    /\ failures' = failures + 1
    /\ Done(h, r)
    /\ UNCHANGED <<dbVars, extVars, reserved, expiries>>

\* ------------------------------------------------- environment (gateway)
\* The user completes the gateway transaction for an order number.
GatewayPay(o) ==
    /\ Exists(o)
    /\ ~gwPaid[o]
    /\ gwPaid' = [gwPaid EXCEPT ![o] = TRUE]
    /\ out' = NoOut
    /\ UNCHANGED <<dbVars, redisKey, gwRefunds, procVars, envVars>>

\* The 300 s lifetime of a dedup key ends.
ExpireKey(o) ==
    /\ redisKey[o]
    /\ expiries < MaxExpire
    /\ expiries' = expiries + 1
    /\ redisKey' = [redisKey EXCEPT ![o] = FALSE]
    /\ out' = NoOut
    /\ UNCHANGED <<dbVars, gwPaid, gwRefunds, procVars, reserved, failures>>

\* --------------------------------------------- settlement (notify and poll)
OkResp(h) == IF h \in Notifiers THEN "SUCCESS" ELSE "paid"
ErrResp(h) == IF h \in Notifiers THEN "FAIL" ELSE "500"
SettleUserId(h) == IF h \in Notifiers THEN loc[h].o.userId ELSE loc[h].req.caller

\* await order.paySuccess('wechat')
SettlePay(h) ==
    /\ pc[h] = "pay"
    /\ \/ /\ orders' = [orders EXCEPT ![loc[h].tgt] =
                            Save(@, loc[h].o, PaySuccess(loc[h].o, "wechat", "set"))]
          /\ Step(h, "loaduser", [loc[h] EXCEPT !.o = PaySuccess(@, "wechat", "set")])
          /\ UNCHANGED <<users, ledger, stock, extVars, envVars>>
       \/ Throws(h, ErrResp(h))

\* await User.findByPk(...)
SettleLoadUser(h) ==
    /\ pc[h] = "loaduser"
    /\ Step(h, "spent", [loc[h] EXCEPT !.u = users[SettleUserId(h)]])
    /\ UNCHANGED <<dbVars, extVars, envVars>>

\* await userInfo.updateSpent(order.payAmount), then the points computation
SettleSpent(h) ==
    /\ pc[h] = "spent"
    /\ \/ /\ users' = [users EXCEPT ![SettleUserId(h)] =
                          Save(@, loc[h].u, UpdateSpent(loc[h].u, loc[h].o.payAmount))]
          /\ UNCHANGED <<orders, ledger, stock, extVars, envVars>>
          /\ IF PointsFor(loc[h].o.payAmount) > 0
             THEN Step(h, "addpts",
                       [loc[h] EXCEPT !.u = UpdateSpent(@, loc[h].o.payAmount)])
             ELSE Done(h, OkResp(h))
       \/ Throws(h, ErrResp(h))

\* await userInfo.addPoints(...): the user row
SettleAddPoints(h) ==
    /\ pc[h] = "addpts"
    /\ \/ /\ users' = [users EXCEPT ![SettleUserId(h)] =
                  Save(@, loc[h].u, AddPoints(loc[h].u, PointsFor(loc[h].o.payAmount)))]
          /\ Step(h, "record",
                  [loc[h] EXCEPT !.u = AddPoints(@, PointsFor(loc[h].o.payAmount))])
          /\ UNCHANGED <<orders, ledger, stock, extVars, envVars>>
       \/ Throws(h, ErrResp(h))

\* await userInfo.addPoints(...): the PointRecord row
SettleRecord(h) ==
    /\ pc[h] = "record"
    /\ \/ /\ ledger' = Append(ledger, EarnRecord(SettleUserId(h),
                          PointsFor(loc[h].o.payAmount), "consume", loc[h].u.points))
          /\ Step(h, "savepts", loc[h])
          /\ UNCHANGED <<orders, users, stock, extVars, envVars>>
       \/ Throws(h, ErrResp(h))

\* order.pointsEarned = pointsEarned; await order.save()
SettleSavePoints(h) ==
    /\ pc[h] = "savepts"
    /\ \/ /\ orders' = [orders EXCEPT ![loc[h].tgt] =
                Save(@, loc[h].o,
                     [loc[h].o EXCEPT !.pointsEarned = PointsFor(loc[h].o.payAmount)])]
          /\ Done(h, OkResp(h))
          /\ UNCHANGED <<users, ledger, stock, extVars, envVars>>
       \/ Throws(h, ErrResp(h))

Settle(h) ==
    \/ SettlePay(h)
    \/ SettleLoadUser(h)
    \/ SettleSpent(h)
    \/ SettleAddPoints(h)
    \/ SettleRecord(h)
    \/ SettleSavePoints(h)

\* ------------------------------------------------ POST /payment/notify
NotifyKinds == {"ok", "badsign", "tampered", "badreturn", "badresult"}

\* the same, and a success message of the gateway that reports another amount
FeeKinds == {"ok", "wrongfee"}

\* the merchant's shared secret (WX_PAY_KEY), and a key a forger might use
PayKey == "paykey"
ForgedKey == "forgedkey"

\* A parameter object is the sequence of its <<key, value>> fields in
\* insertion order, keys distinct; a value is the sequence of the characters
\* of its text, <<>> being ''.
\* Object.keys(params)
KeysOf(params) == {params[i][1] : i \in 1 .. Len(params)}

\* params[key]
Field(params, key) == params[CHOOSE i \in 1 .. Len(params) : params[i][1] = key][2]

\* params[key] = value
SetField(params, key, value) ==
    IF key \in KeysOf(params)
    THEN [i \in 1 .. Len(params) |->
             IF params[i][1] = key THEN <<key, value>> ELSE params[i]]
    ELSE Append(params, <<key, value>>)

\* the keys of the model in the order Array.prototype.sort() gives them
KeyOrder ==
    <<"a", "b", "out_trade_no", "result_code", "return_code", "sign", "total_fee">>

\* Object.keys(params).sort()
sortedKeys(params) == SelectSeq(KeyOrder, LAMBDA k : k \in KeysOf(params))

\* variant: empty fields are signed too
SignedThoughEmpty(params, key) == key # "sign"

\* params[key] !== '' && params[key] != null && key !== 'sign'
IsSigned(params, key) == Field(params, key) # <<>> /\ key # "sign"

\* signStr after the keys from the i-th on: `${key}=${params[key]}&` for
\* each signed field
RECURSIVE signStr(_, _, _)
signStr(params, keys, i) ==
    IF i > Len(keys) THEN <<>>
    ELSE (IF IsSigned(params, keys[i])
          THEN <<keys[i], "=">> \o Field(params, keys[i]) \o <<"&">>
          ELSE <<>>) \o signStr(params, keys, i + 1)

\* crypto.createHash('md5')...digest('hex').toUpperCase(), taken to be
\* collision-free: the digest stands for the text it was made of
MD5(text) == <<"MD5">> \o text

\* PaymentService.generateSign
generateSign(params, key) ==
    MD5(signStr(params, sortedKeys(params), 1) \o <<"key", "=", key>>)

\* the fields of a callback message as parseXML returns them
ParsedFields(m) ==
    LET text(v) == IF v = "" THEN <<>> ELSE <<v>>
        body == << <<"return_code", text(m.return_code)>>,
                   <<"result_code", text(m.result_code)>>,
                   <<"out_trade_no", <<m.out_trade_no>>>>,
                   <<"total_fee", <<m.total_fee>>>> >>
    IN  IF "sign" \in DOMAIN m THEN Append(body, <<"sign", m.sign>>) ELSE body

AlwaysVerified(params, sign) == TRUE

\* verifySign
verifySign(params, sign) == generateSign(params, PayKey) = sign

\* Math.round(totalFee * 100): the amount of order number o in cents, as the
\* create route sends it to the gateway
TotalFee(o) == IF Exists(o) THEN orders[o].payAmount * 100 ELSE 0

\* the parsed callback bodies that reach the endpoint for order number o:
\* the gateway's success message, a message signed with another key, a
\* success message carrying the signature of a failure message, and the
\* gateway's messages with a failed return or result code
NotifyMessage(o, kind) ==
    LET msg(rc, bc) == [out_trade_no |-> o, return_code |-> rc, result_code |-> bc,
                        total_fee |-> TotalFee(o)]
        signed(m, sg) == [out_trade_no |-> m.out_trade_no, return_code |-> m.return_code,
                          result_code |-> m.result_code, total_fee |-> m.total_fee,
                          sign |-> sg]
        good == msg("SUCCESS", "SUCCESS")
        other == [good EXCEPT !.total_fee = 1]
        sig(m, key) == generateSign(ParsedFields(m), key)
    IN CASE kind = "ok" -> signed(good, sig(good, PayKey))
         [] kind = "wrongfee" -> signed(other, sig(other, PayKey))
         [] kind = "badsign" -> signed(good, sig(good, ForgedKey))
         [] kind = "tampered" -> signed(good, sig(msg("SUCCESS", "FAIL"), PayKey))
         [] kind = "badreturn" -> signed(msg("FAIL", ""), sig(msg("FAIL", ""), PayKey))
         [] kind = "badresult" -> signed(msg("SUCCESS", "FAIL"),
                                         sig(msg("SUCCESS", "FAIL"), PayKey))
\* the result of a fresh callback (totalFee is kept in cents)
FreshResult(o, totalFee) == [success |-> TRUE, orderNo |-> o, totalFee |-> totalFee]
DupResult == [success |-> TRUE, message |-> "dup"]

\* variant: handlePaymentNotify without its return_code and result_code checks
NotifyStartAnyCode(h, o, kind) ==
    /\ pc[h] = "idle"
    /\ kind \in FeeKinds => gwPaid[o]
    /\ UNCHANGED <<dbVars, extVars, envVars>>
    /\ LET params == NotifyMessage(o, kind)
           orderNo == params.out_trade_no
       IN  IF ~verifySign(ParsedFields(params), params.sign) THEN Done(h, "FAIL")
           ELSE IF redisKey[orderNo]
           THEN Step(h, "find", [loc[h] EXCEPT !.tgt = orderNo, !.res = DupResult])
           ELSE Step(h, "setex", [loc[h] EXCEPT !.tgt = orderNo,
                                        !.req = [total_fee |-> params.total_fee]])

\* handlePaymentNotify: parse, verify sign / return_code / result_code, redis.get
NotifyStart(h, o, kind) ==
    /\ pc[h] = "idle"
    /\ kind \in FeeKinds => gwPaid[o]
    /\ UNCHANGED <<dbVars, extVars, envVars>>
    /\ LET params == NotifyMessage(o, kind)
           orderNo == params.out_trade_no
       IN  IF ~verifySign(ParsedFields(params), params.sign) THEN Done(h, "FAIL")
           ELSE IF params.return_code # "SUCCESS" THEN Done(h, "FAIL")
           ELSE IF params.result_code # "SUCCESS" THEN Done(h, "FAIL")
           ELSE IF redisKey[orderNo]
           THEN Step(h, "find", [loc[h] EXCEPT !.tgt = orderNo, !.res = DupResult])
           ELSE Step(h, "setex", [loc[h] EXCEPT !.tgt = orderNo,
                                        !.req = [total_fee |-> params.total_fee]])

\* handlePaymentNotify: redis.setex(cacheKey, 300, ...), return the fresh result
NotifySetex(h) ==
    /\ pc[h] = "setex"
    /\ redisKey' = [redisKey EXCEPT ![loc[h].tgt] = TRUE]
    /\ Step(h, "find", [loc[h] EXCEPT !.res = FreshResult(loc[h].tgt,
                                                        loc[h].req.total_fee)])
    /\ UNCHANGED <<dbVars, gwPaid, gwRefunds, envVars>>

\* Order.findByOrderNo(result.orderNo) and the payStatus guard.  A duplicate
\* result carries no orderNo: the finder is called with undefined, which the
\* ORM either rejects (it throws) or answers with no row.
NotifyFind(h) ==
    /\ pc[h] = "find"
    /\ UNCHANGED <<dbVars, extVars, envVars>>
    /\ IF loc[h].res = DupResult
       THEN \/ Done(h, "SUCCESS")
            \/ Done(h, "FAIL")
       ELSE IF Exists(loc[h].res.orderNo) /\ orders[loc[h].res.orderNo].payStatus = "unpaid"
            THEN Step(h, "pay", [loc[h] EXCEPT !.o = orders[loc[h].res.orderNo]])
            ELSE Done(h, "SUCCESS")

Notify(h, ids, kinds) ==
    \/ \E o \in ids, kind \in kinds : NotifyStart(h, o, kind)
    \/ NotifySetex(h)
    \/ NotifyFind(h)

\* ------------------------------------------- GET /payment/status/:orderNo
\* Order.findByOrderNo, the owner check and the already-paid shortcut
PollStart(h, o, caller) ==
    /\ pc[h] = "idle"
    /\ UNCHANGED <<dbVars, extVars, envVars>>
    /\ IF ~Exists(o) THEN Done(h, "404")
       ELSE IF orders[o].userId # caller THEN Done(h, "403")
       ELSE IF orders[o].payStatus = "paid" THEN Done(h, "paid")
       ELSE Step(h, "query", [loc[h] EXCEPT !.tgt = o, !.o = orders[o],
                                            !.req = [caller |-> caller]])

\* what paymentService.queryOrder(orderNo) can come back with: the trade
\* state of a successful query, a reply whose return_code or result_code is
\* not SUCCESS ("rejected"), or a thrown network error or timeout ("timeout")
QueryReplies == {"SUCCESS", "NOTPAY", "rejected", "timeout"}

\* the response of the status route to a query that did not find the trade
\* paid: { success: true, payStatus: 'unpaid', tradeState } for another trade
\* state, { success: true, payStatus: 'unpaid', tradeState: 'UNKNOWN' } for a
\* rejected query, and 500 { success: false } from the catch block
PollAnswer(reply) ==
    CASE reply = "NOTPAY" -> "unpaid"
      [] reply = "rejected" -> "unknown"
      [] reply = "timeout" -> "500"

\* const wxResult = await paymentService.queryOrder(orderNo) and the branch
\* on its codes and trade state
PollQuery(h) ==
    /\ pc[h] = "query"
    /\ UNCHANGED <<dbVars, extVars, envVars>>
    /\ \E reply \in QueryReplies :
          /\ reply = "SUCCESS" => gwPaid[loc[h].tgt]
          /\ IF reply = "SUCCESS" THEN Step(h, "pay", loc[h])
             ELSE Done(h, PollAnswer(reply))

Poll(h, ids, callers) ==
    \/ \E o \in ids, caller \in callers : PollStart(h, o, caller)
    \/ PollQuery(h)

\* ------------------------------------------------ POST /payment/create
\* Order.findByPk and the owner and payStatus checks
PayCreateStart(h, o, caller) ==
    /\ pc[h] = "idle"
    /\ UNCHANGED <<dbVars, extVars, envVars>>
    /\ IF ~Exists(o) THEN Done(h, "404")
       ELSE IF orders[o].userId # caller THEN Done(h, "403")
       ELSE IF orders[o].payStatus # "unpaid" THEN Done(h, "400")
       ELSE Step(h, "unified", [loc[h] EXCEPT !.tgt = o, !.o = orders[o],
                                              !.req = [caller |-> caller]])

\* paymentService.createUnifiedOrder(...): returns the prepay id, or throws
\* on a network error, a timeout or a non-SUCCESS return/result code; the
\* route answers the pay parameters, or 500 from its catch block
PayCreateGateway(h) ==
    /\ pc[h] = "unified"
    /\ UNCHANGED <<dbVars, extVars, envVars>>
    /\ \/ Done(h, "ok")
       \/ Done(h, "500")

PayCreate(h, ids, callers) ==
    \/ \E o \in ids, caller \in callers : PayCreateStart(h, o, caller)
    \/ PayCreateGateway(h)

\* --------------------------------------------- POST /orders/:id/cancel
CancelReasons == {"", "changed my mind"}

\* advance the restore loop of request h past line i
CancelNext(h, i) ==
    IF i < Len(loc[h].o.items)
    THEN Step(h, "xitem", [loc[h] EXCEPT !.idx = i + 1, !.d = NoDish])
    ELSE Done(h, "ok")

\* Order.findByPk, the owner check, and cancel()'s status check
\* variant: the cancel route without its ownership check
CancelStartByAnyone(h, o, caller, reason) ==
    /\ pc[h] = "idle"
    /\ UNCHANGED <<dbVars, extVars, envVars>>
    /\ IF ~Exists(o) THEN Done(h, "404")
       ELSE IF ~CancelOk(orders[o]) THEN Done(h, "500")
       ELSE Step(h, "xsave", [loc[h] EXCEPT !.tgt = o, !.o = orders[o],
                   !.req = [caller |-> caller,
                            reason |-> IF reason = "" THEN "user cancel" ELSE reason]])

CancelStart(h, o, caller, reason) ==
    /\ pc[h] = "idle"
    /\ UNCHANGED <<dbVars, extVars, envVars>>
    /\ IF ~Exists(o) THEN Done(h, "404")
       ELSE IF orders[o].userId # caller THEN Done(h, "403")
       ELSE IF ~CancelOk(orders[o]) THEN Done(h, "500")
       ELSE Step(h, "xsave", [loc[h] EXCEPT !.tgt = o, !.o = orders[o],
                   !.req = [caller |-> caller,
                            reason |-> IF reason = "" THEN "user cancel" ELSE reason]])

\* cancel(): await this.save()
CancelSave(h) ==
    /\ pc[h] = "xsave"
    /\ \/ /\ orders' = [orders EXCEPT ![loc[h].tgt] =
                  Save(@, loc[h].o, Cancel(loc[h].o, loc[h].req.reason, "set"))]
          /\ Step(h, "xitem", [loc[h] EXCEPT !.o = Cancel(@, loc[h].req.reason, "set"),
                                             !.idx = 1])
          /\ UNCHANGED <<users, ledger, stock, extVars, envVars>>
       \/ Throws(h, "500")

\* await Dish.findByPk(item.dishId); increaseStock() on an unlimited dish
\* returns without a write
CancelLoadDish(h) ==
    /\ pc[h] = "xitem"
    /\ UNCHANGED <<dbVars, extVars, envVars>>
    /\ LET item == loc[h].o.items[loc[h].idx] IN
       IF increaseStock(stock[item.dishId], item.quantity) = stock[item.dishId]
       THEN CancelNext(h, loc[h].idx)
       ELSE Step(h, "xinc", [loc[h] EXCEPT !.d = [stock |-> stock[item.dishId]]])

\* increaseStock(): await this.save()
CancelIncrease(h) ==
    /\ pc[h] = "xinc"
    /\ LET item == loc[h].o.items[loc[h].idx] IN
       \/ /\ stock' = [stock EXCEPT ![item.dishId] =
                          increaseStock(loc[h].d.stock, item.quantity)]
          /\ CancelNext(h, loc[h].idx)
          /\ UNCHANGED <<orders, users, ledger, extVars, envVars>>
       \/ Throws(h, "500")

CancelRoute(h, callers, reasons) ==
    \/ \E o \in OrderIds, caller \in callers, reason \in reasons :
          CancelStart(h, o, caller, reason)
    \/ CancelSave(h)
    \/ CancelLoadDish(h)
    \/ CancelIncrease(h)


\* ------------------------------------------------ Order lifecycle methods
\* The methods' callers are not part of the routes: a call is one step, the
\* method applied to the order as it is stored.
StaffOps == {"confirm", "startPreparing", "ready", "startDelivery",
             "completeDelivery", "requestRefund"}

OpOk(op, o) ==
    CASE op = "confirm" -> ConfirmOk(o)
      [] op = "startPreparing" -> StartPreparingOk(o)
      [] op = "ready" -> ReadyOk(o)
      [] op = "startDelivery" -> StartDeliveryOk(o)
      [] op = "completeDelivery" -> CompleteDeliveryOk(o)
      [] op = "requestRefund" -> RequestRefundOk(o)

\* variant: confirm() marking the order paid as well
OpApplyMarkingPaid(op, o) == [o EXCEPT !.status = "confirmed", !.payStatus = "paid"]

OpApply(op, o) ==
    CASE op = "confirm" -> Confirm(o)
      [] op = "startPreparing" -> StartPreparing(o)
      [] op = "ready" -> Ready(o)
      [] op = "startDelivery" -> StartDelivery(o, "task")
      [] op = "completeDelivery" -> CompleteDelivery(o, "set")
      [] op = "requestRefund" -> RequestRefund(o, "staff refund", "set")

\* one call: the status check on a freshly read instance, then await this.save()
StaffCall(h, o, op) ==
    /\ pc[h] = "idle"
    /\ Exists(o)
    /\ IF ~OpOk(op, orders[o])
       THEN /\ Done(h, "error")
            /\ UNCHANGED <<dbVars, extVars, envVars>>
       ELSE \/ /\ orders' = [orders EXCEPT ![o] = Save(@, @, OpApply(op, @))]
               /\ Done(h, "ok")
               /\ UNCHANGED <<users, ledger, stock, extVars, envVars>>
            \/ Throws(h, "error")

\* ------------------------------------------------- POST /users/sign-in
\* await User.findByPk(user.userId)
SignInStart(h, caller) ==
    /\ pc[h] = "idle"
    /\ UNCHANGED <<dbVars, extVars, envVars>>
    /\ Step(h, "signin", [loc[h] EXCEPT !.u = users[caller],
                                        !.req = [caller |-> caller]])

\* userInfo.signIn() up to the await this.save() of addPoints; the clock
\* reads now, not before any sign-in already stored
SignInSave(h, times) ==
    /\ pc[h] = "signin"
    /\ \E now \in times :
          /\ now >= users[loc[h].req.caller].lastSignInAt
          /\ IF SignInThrows(loc[h].u, now)
             THEN /\ Done(h, "400")
                  /\ UNCHANGED <<dbVars, extVars, envVars>>
             ELSE \/ /\ users' = [users EXCEPT ![loc[h].req.caller] =
                                     Save(@, loc[h].u, SignIn(loc[h].u, now))]
                     /\ Step(h, "signrec", [loc[h] EXCEPT !.u = SignIn(@, now)])
                     /\ UNCHANGED <<orders, ledger, stock, extVars, envVars>>
                  \/ Throws(h, "400")

\* await PointRecord.create({...}) of addPoints; the save() that follows has
\* nothing left to write
SignInRecord(h) ==
    /\ pc[h] = "signrec"
    /\ \/ /\ ledger' = Append(ledger, EarnRecord(loc[h].req.caller, SignInPoints,
                                                 "signin", loc[h].u.points))
          /\ Done(h, "ok")
          /\ UNCHANGED <<orders, users, stock, extVars, envVars>>
       \/ Throws(h, "400")

SignInRoute(h, callers, times) ==
    \/ \E caller \in callers : SignInStart(h, caller)
    \/ SignInSave(h, times)
    \/ SignInRecord(h)

\* --------------------------------------------- User.prototype.usePoints
\* The method has no caller among the routes: a call is made on an instance
\* read with findByPk.
SpendAmounts == {5}

SpendStart(h, u, points) ==
    /\ pc[h] = "idle"
    /\ Len(ledger) < MaxRecords
    /\ UNCHANGED <<dbVars, extVars, envVars>>
    /\ Step(h, "spend", [loc[h] EXCEPT !.u = users[u],
                                       !.req = [caller |-> u, points |-> points]])

\* the balance check, this.points -= points and await this.save()
SpendSave(h) ==
    /\ pc[h] = "spend"
    /\ IF UsePointsThrows(loc[h].u, loc[h].req.points)
       THEN /\ Done(h, "error")
            /\ UNCHANGED <<dbVars, extVars, envVars>>
       ELSE \/ /\ users' = [users EXCEPT ![loc[h].req.caller] =
                        Save(@, loc[h].u, UsePoints(loc[h].u, loc[h].req.points))]
               /\ Step(h, "spendrec",
                       [loc[h] EXCEPT !.u = UsePoints(@, loc[h].req.points)])
               /\ UNCHANGED <<orders, ledger, stock, extVars, envVars>>
            \/ Throws(h, "error")

\* await PointRecord.create({...})
SpendInsert(h) ==
    /\ pc[h] = "spendrec"
    /\ \/ /\ ledger' = Append(ledger, SpendRecord(loc[h].req.caller,
                              loc[h].req.points, "spend", loc[h].u.points))
          /\ Done(h, "ok")
          /\ UNCHANGED <<orders, users, stock, extVars, envVars>>
       \/ Throws(h, "error")

SpendCall(h, callers, amounts) ==
    \/ \E u \in callers, points \in amounts : SpendStart(h, u, points)
    \/ SpendSave(h)
    \/ SpendInsert(h)

\* ---------------------------------------------- POST /orders/:id/rating
Ratings == {1, 5}

\* validation, Order.findByPk and the owner check
RateStart(h, o, caller, rating) ==
    /\ pc[h] = "idle"
    /\ UNCHANGED <<dbVars, extVars, envVars>>
    /\ IF ~Exists(o) THEN Done(h, "404")
       ELSE IF orders[o].userId # caller THEN Done(h, "403")
       ELSE Step(h, "rate", [loc[h] EXCEPT !.tgt = o, !.o = orders[o],
                                !.req = [caller |-> caller, rating |-> rating]])

\* await order.addRating(rating, comment): the status check on the instance
\* read by RateStart, then await this.save(). The merchant's rating, updated
\* next, is not part of the state.
RateSave(h) ==
    /\ pc[h] = "rate"
    /\ IF ~AddRatingOk(loc[h].o)
       THEN /\ Done(h, "500")
            /\ UNCHANGED <<dbVars, extVars, envVars>>
       ELSE \/ /\ orders' = [orders EXCEPT ![loc[h].tgt] =
                       Save(@, loc[h].o, AddRating(loc[h].o, loc[h].req.rating))]
               /\ Done(h, "ok")
               /\ UNCHANGED <<users, ledger, stock, extVars, envVars>>
            \/ Throws(h, "500")

RateRoute(h, callers, ratings) ==
    \/ \E o \in OrderIds, caller \in callers, rating \in ratings :
          RateStart(h, o, caller, rating)
    \/ RateSave(h)

\* ------------------------------------------------ POST /payment/refund
RefundAmounts == {10, 59, 60}

\* variant: the refund route without its amount check
RefundAmountAlwaysOk(amount, o) == TRUE

\* the refund route's amount check: refundAmount > order.payAmount is refused
RefundAmountOk(amount, o) == ~(amount > o.payAmount)

\* Order.findByPk and the owner, status and amount checks
RefundStart(h, o, caller, amount) ==
    /\ pc[h] = "idle"
    /\ UNCHANGED <<dbVars, extVars, envVars>>
    /\ IF ~Exists(o) THEN Done(h, "404")
       ELSE IF orders[o].userId # caller THEN Done(h, "403")
       ELSE IF orders[o].status # "completed" THEN Done(h, "400")
       ELSE IF ~RefundAmountOk(amount, orders[o]) THEN Done(h, "400")
       ELSE Step(h, "rgateway", [loc[h] EXCEPT !.tgt = o, !.o = orders[o],
                   !.req = [caller |-> caller, refundAmount |-> amount,
                            reason |-> "refund"]])

\* paymentService.refund(...): accepted, or a failed code, or the call throws
RefundGateway(h) ==
    /\ pc[h] = "rgateway"
    /\ UNCHANGED <<dbVars, redisKey, gwPaid, envVars>>
    /\ \/ /\ gwRefunds' = [gwRefunds EXCEPT ![loc[h].tgt] =
                              Append(@, loc[h].req.refundAmount)]
          /\ Step(h, "rsave", loc[h])
       \/ /\ UNCHANGED gwRefunds
          /\ Done(h, "500")

\* order.status = 'refunded'; ...; await order.save()
RefundSave(h) ==
    /\ pc[h] = "rsave"
    /\ \/ /\ orders' = [orders EXCEPT ![loc[h].tgt] =
                  Save(@, loc[h].o,
                       [loc[h].o EXCEPT !.status = "refunded",
                                        !.refundReason = loc[h].req.reason,
                                        !.refundTime = "set",
                                        !.refundAmount = loc[h].req.refundAmount])]
          /\ Done(h, "ok")
          /\ UNCHANGED <<users, ledger, stock, extVars, envVars>>
       \/ Throws(h, "500")

RefundRoute(h, callers, amounts) ==
    \/ \E o \in OrderIds, caller \in callers, amount \in amounts :
          RefundStart(h, o, caller, amount)
    \/ RefundGateway(h)
    \/ RefundSave(h)

\* ------------------------------------------- POST /payment/refund-notify
RefundNotifyKinds == {"ok", "badsign", "failed"}

\* handleRefundNotify: parse, verify the sign, decrypt req_info (which may
\* throw), refund_status; the gateway reports a refund it has accepted
RefundNotifyStart(h, o, fee, kind) ==
    /\ pc[h] = "idle"
    /\ kind # "badsign" => \E i \in 1..Len(gwRefunds[o]) : gwRefunds[o][i] = fee
    /\ UNCHANGED <<dbVars, extVars, envVars>>
    /\ \/ /\ kind = "ok"
          /\ Step(h, "rnfind", [loc[h] EXCEPT !.tgt = o,
                                   !.res = [success |-> TRUE, orderNo |-> o,
                                            refundFee |-> fee]])
       \/ Done(h, "FAIL")

\* Order.findByOrderNo(result.orderNo)
RefundNotifyFind(h) ==
    /\ pc[h] = "rnfind"
    /\ UNCHANGED <<dbVars, extVars, envVars>>
    /\ IF Exists(loc[h].res.orderNo)
       THEN Step(h, "rnsave", [loc[h] EXCEPT !.o = orders[loc[h].res.orderNo]])
       ELSE Done(h, "SUCCESS")

\* order.refundAmount = result.refundFee; order.refundTime = ...; order.save()
RefundNotifySave(h) ==
    /\ pc[h] = "rnsave"
    /\ \/ /\ orders' = [orders EXCEPT ![loc[h].tgt] =
                  Save(@, loc[h].o,
                       [loc[h].o EXCEPT !.refundAmount = loc[h].res.refundFee,
                                        !.refundTime = "set"])]
          /\ Done(h, "SUCCESS")
          /\ UNCHANGED <<users, ledger, stock, extVars, envVars>>
       \/ Throws(h, "FAIL")

RefundNotify(h, ids, amounts, kinds) ==
    \/ \E o \in ids, fee \in amounts, kind \in kinds : RefundNotifyStart(h, o, fee, kind)
    \/ RefundNotifyFind(h)
    \/ RefundNotifySave(h)

\* ------------------------------------------------------ auth() middleware
\* what a request carries as its bearer token
Tokens == {"none", "malformed", "revoked", "expired", "valid"}

\* auth(): no token, a blacklisted token, or a token verifyToken rejects
AuthRejects(token) == token # "valid"

\* A request to a route mounted behind auth() is turned away with 401 and a
\* JSON body; with a valid token the route's handler runs.
Auth(h, token) ==
    /\ pc[h] = "idle"
    /\ AuthRejects(token)
    /\ Done(h, "401")
    /\ UNCHANGED <<dbVars, extVars, envVars>>

\* ------------------------------------------------------- POST /orders
\* carts of one line of the finite-stock dish
OneLineCarts == {<<[dishId |-> FiniteDish, quantity |-> q]>> : q \in 1..MaxQty}

\* the same, and one cart with a line of each dish
FewCarts == OneLineCarts
            \cup {<<[dishId |-> FiniteDish, quantity |-> 1],
                     [dishId |-> UnlimitedDish, quantity |-> 1]>>}

Bodies(carts) == [items : carts, couponId : {"null"}, pointsUsed : {0}]

NextOrderId == 1 + Cardinality({o \in OrderIds : Exists(o)})

\* advance the reservation loop of request h past line i
CreateNext(h, i) ==
    IF i < Len(loc[h].req.items)
    THEN /\ Step(h, "citem", [loc[h] EXCEPT !.idx = i + 1, !.d = NoDish])
         /\ UNCHANGED reserved
    ELSE /\ Done(h, "ok")
         /\ reserved' = reserved + SumQty(loc[h].req.items, FiniteDish)

\* authentication, validation and Merchant.findByPk
CreateStart(h, caller, body) ==
    /\ pc[h] = "idle"
    /\ Step(h, "ccheck", [loc[h] EXCEPT !.idx = 1,
                             !.req = [caller |-> caller, items |-> body.items,
                                      couponId |-> body.couponId,
                                      pointsUsed |-> body.pointsUsed]])
    /\ UNCHANGED <<dbVars, extVars, envVars>>

\* first loop: await Dish.findByPk(item.dishId), hasStock, the line's price
CreateCheck(h) ==
    /\ pc[h] = "ccheck"
    /\ UNCHANGED <<dbVars, extVars, envVars>>
    /\ LET item == loc[h].req.items[loc[h].idx] IN
       IF ~hasStock(stock[item.dishId], item.quantity) THEN Done(h, "400")
       ELSE IF loc[h].idx < Len(loc[h].req.items)
       THEN Step(h, "ccheck", [loc[h] EXCEPT !.idx = @ + 1])
       ELSE Step(h, "ccreate", loc[h])

\* the totals and await Order.create({...})
CreateOrder(h) ==
    /\ pc[h] = "ccreate"
    /\ NextOrderId \in OrderIds
    /\ \/ /\ orders' = [orders EXCEPT ![NextOrderId] =
                            NewOrder(loc[h].req.caller, loc[h].req)]
          /\ Step(h, "citem", [loc[h] EXCEPT !.tgt = NextOrderId, !.idx = 1])
          /\ UNCHANGED <<users, ledger, stock, extVars, envVars>>
       \/ Throws(h, "500")

\* second loop: await Dish.findByPk(item.dishId); decreaseStock() throws on
\* short stock and returns without a write on an unlimited dish
CreateLoadDish(h) ==
    /\ pc[h] = "citem"
    /\ UNCHANGED <<dbVars, extVars, failures, expiries>>
    /\ LET item == loc[h].req.items[loc[h].idx] IN
       IF DecreaseThrows(stock[item.dishId], item.quantity)
       THEN Done(h, "500") /\ UNCHANGED reserved
       ELSE IF decreaseStock(stock[item.dishId], item.quantity) = stock[item.dishId]
       THEN CreateNext(h, loc[h].idx)
       ELSE /\ Step(h, "cdec", [loc[h] EXCEPT !.d = [stock |-> stock[item.dishId]]])
            /\ UNCHANGED reserved

\* decreaseStock(): await this.save()
CreateDecrease(h) ==
    /\ pc[h] = "cdec"
    /\ LET item == loc[h].req.items[loc[h].idx] IN
       \/ /\ stock' = [stock EXCEPT ![item.dishId] =
                          decreaseStock(loc[h].d.stock, item.quantity)]
          /\ CreateNext(h, loc[h].idx)
          /\ UNCHANGED <<orders, users, ledger, extVars, failures, expiries>>
       \/ Throws(h, "500")

CreateRoute(h, callers, bodies) ==
    \/ \E caller \in callers, body \in bodies : CreateStart(h, caller, body)
    \/ CreateCheck(h)
    \/ CreateOrder(h)
    \/ CreateLoadDish(h)
    \/ CreateDecrease(h)

\* ------------------------------------------------------- specifications
AllIdle == \A h \in Procs : pc[h] = "idle"

InitProcs ==
    /\ pc = [h \in Procs |-> "idle"]
    /\ loc = [h \in Procs |-> Blank]
    /\ out = NoOut
    /\ reserved = 0
    /\ failures = 0
    /\ expiries = 0

InitExt ==
    /\ redisKey = [o \in OrderIds |-> FALSE]
    /\ gwPaid = [o \in OrderIds |-> FALSE]
    /\ gwRefunds = [o \in OrderIds |-> <<>>]

\* a cart of two lines that earns points, and a one-line cart with a coupon
\* and a points deduction whose pay amount is too small to earn any
LargeBody ==
    [items |-> <<[dishId |-> FiniteDish, quantity |-> 2],
                 [dishId |-> UnlimitedDish, quantity |-> 1]>>,
     couponId |-> "null", pointsUsed |-> 0]
SmallBody ==
    [items |-> <<[dishId |-> FiniteDish, quantity |-> 1]>>,
     couponId |-> "c1", pointsUsed |-> 18000]

\* One order, placed by its owner with one of the bodies, is waiting for payment.
InitPlaced(bodies) ==
    /\ \E body \in bodies :
          /\ orders = [o \in OrderIds |-> IF o = 1 THEN NewOrder(Owner, body) ELSE NoOrder]
          /\ stock = [d \in Dishes |-> IF d = FiniteDish
                                       THEN InitStock - SumQty(body.items, FiniteDish)
                                       ELSE Unlimited]
    /\ users = [u \in Users |-> NewUser]
    /\ ledger = <<>>
    /\ InitExt
    /\ InitProcs

Init == InitPlaced({LargeBody, SmallBody})

\* The order has been paid, settled and delivered.
DeliveredOrder(body) ==
    LET paid == PaySuccess(NewOrder(Owner, body), "wechat", "set")
        pts == PointsFor(paid.payAmount)
    IN  [paid EXCEPT !.pointsEarned = pts, !.status = "completed",
                     !.deliveryStatus = "delivered", !.deliveryTaskId = "task",
                     !.actualDeliveryTime = "set"]

InitDelivered ==
    /\ \E body \in {LargeBody, SmallBody} :
          LET pts == PointsFor(DeliveredOrder(body).payAmount) IN
          /\ orders = [o \in OrderIds |-> IF o = 1 THEN DeliveredOrder(body) ELSE NoOrder]
          /\ stock = [d \in Dishes |-> IF d = FiniteDish
                                       THEN InitStock - SumQty(body.items, FiniteDish)
                                       ELSE Unlimited]
          /\ users = [u \in Users |->
                         IF u = Owner
                         THEN AddPoints(UpdateSpent(NewUser, DeliveredOrder(body).payAmount), pts)
                         ELSE NewUser]
          /\ ledger = IF pts > 0 THEN <<EarnRecord(Owner, pts, "consume", pts)>> ELSE <<>>
    /\ redisKey = [o \in OrderIds |-> FALSE]
    /\ gwPaid = [o \in OrderIds |-> o = 1]
    /\ gwRefunds = [o \in OrderIds |-> <<>>]
    /\ InitProcs

\* Callback endpoints: the notify and refund-notify endpoints as they are
\* mounted, behind auth(), next to the refund route that starts the refunds.
NextCallbacks ==
    \/ \E o \in OrderIds : GatewayPay(o)
    \/ \E h \in {"n1"} \cup RefundNotifiers, token \in Tokens : Auth(h, token)
    \/ \E h \in {"n1"} : Notify(h, OrderIds, NotifyKinds) \/ Settle(h)
    \/ \E h \in Refunders : RefundRoute(h, {Owner}, RefundAmounts)
    \/ \E h \in RefundNotifiers :
          RefundNotify(h, OrderIds, RefundAmounts, RefundNotifyKinds)

SpecCallbacks == (Init \/ InitDelivered) /\ [][NextCallbacks]_vars

\* Payment: one notify delivery and one status poll race on the order.
Next ==
    \/ \E o \in OrderIds : GatewayPay(o)
    \/ \E h \in {"n1"} : Notify(h, OrderIds, NotifyKinds) \/ Settle(h)
    \/ \E h \in Pollers : Poll(h, OrderIds, Users) \/ Settle(h)

Spec == Init /\ [][Next]_vars

\* Duplicate deliveries: two notify deliveries race on the order.
NextDup ==
    \/ \E o \in OrderIds : GatewayPay(o)
    \/ \E o \in OrderIds : ExpireKey(o)
    \/ \E h \in Notifiers : Notify(h, OrderIds, {"ok"}) \/ Settle(h)

SpecDup == Init /\ [][NextDup]_vars

\* Sequential: notify deliveries and status polls for the order, one request
\* at a time.
Alone(h) == \A g \in Procs \ {h} : pc[g] = "idle"

NextSeq ==
    \/ \E o \in OrderIds : GatewayPay(o)
    \/ \E o \in OrderIds : ExpireKey(o)
    \/ \E h \in {"n1"} : Alone(h) /\ (Notify(h, {1}, {"ok"}) \/ Settle(h))
    \/ \E h \in Pollers : Alone(h) /\ (Poll(h, {1}, {Owner}) \/ Settle(h))

SpecSeq == Init /\ [][NextSeq]_vars

\* Lifecycle: the order is moved along by its lifecycle methods, cancelled by
\* its owner, and paid through a notify delivery.
NextLife ==
    \/ \E o \in OrderIds : GatewayPay(o)
    \/ \E h \in {"n1"} : Notify(h, OrderIds, {"ok"}) \/ Settle(h)
    \/ \E h \in {"x1"} : CancelRoute(h, Users, CancelReasons)
    \/ \E h \in Staff, o \in OrderIds, op \in StaffOps : StaffCall(h, o, op)

SpecLife == Init /\ [][NextLife]_vars

\* Sequential lifecycle: the same requests, one at a time.
NextLifeSeq ==
    \/ \E o \in OrderIds : GatewayPay(o)
    \/ \E h \in {"n1"} : Alone(h) /\ (Notify(h, OrderIds, {"ok"}) \/ Settle(h))
    \/ \E h \in {"x1"} : Alone(h) /\ CancelRoute(h, Users, CancelReasons)
    \/ \E h \in Staff, o \in OrderIds, op \in StaffOps : Alone(h) /\ StaffCall(h, o, op)

SpecLifeSeq == Init /\ [][NextLifeSeq]_vars

\* Cancellation: two cancel requests race on the placed order.
NextCancel == \E h \in Cancellers : CancelRoute(h, Users, CancelReasons)

SpecCancel == Init /\ [][NextCancel]_vars

\* Forged callbacks: the deliveries n1 handles carry a signature that does not
\* match, while the gateway's own deliveries and the owner's polls go on.
ForgedKinds == {"badsign", "tampered"}

NextForged ==
    \/ \E o \in OrderIds : GatewayPay(o)
    \/ \E h \in Notifiers :
          Notify(h, OrderIds, IF h = "n1" THEN ForgedKinds ELSE {"ok"}) \/ Settle(h)
    \/ \E h \in Pollers : Poll(h, OrderIds, Users) \/ Settle(h)

SpecForged == Init /\ [][NextForged]_vars

\* Verification: one sender delivers only callbacks that fail the signature,
\* return_code or result_code check, the gateway delivers genuine ones, and
\* dedup keys expire.
RejectedKinds == NotifyKinds \ {"ok"}

NextVerified ==
    \/ \E o \in OrderIds : GatewayPay(o)
    \/ \E o \in OrderIds : ExpireKey(o)
    \/ \E h \in Notifiers :
          Notify(h, OrderIds, IF h = "n1" THEN RejectedKinds ELSE {"ok"}) \/ Settle(h)

SpecVerified == Init /\ [][NextVerified]_vars

\* Paying: notify deliveries of every kind and the owner's polls, while the
\* order is moved along by its lifecycle methods.
NextPaying ==
    \/ \E o \in OrderIds : GatewayPay(o)
    \/ \E h \in {"n1"} : Notify(h, OrderIds, NotifyKinds) \/ Settle(h)
    \/ \E h \in Pollers : Poll(h, OrderIds, Users) \/ Settle(h)
    \/ \E h \in Staff, o \in OrderIds, op \in StaffOps : StaffCall(h, o, op)

SpecPaying == Init /\ [][NextPaying]_vars

\* Refunds: the delivered order is refunded through the refund route, by
\* Order.requestRefund, and through the gateway's refund-notify callbacks.
NextRefund ==
    \/ \E h \in Refunders : RefundRoute(h, Users, RefundAmounts)
    \/ \E h \in RefundNotifiers :
          RefundNotify(h, OrderIds, RefundAmounts, RefundNotifyKinds)
    \/ \E h \in Staff, o \in OrderIds, op \in StaffOps : StaffCall(h, o, op)

SpecRefund == InitDelivered /\ [][NextRefund]_vars

\* request h is being served, or may be taken on
InFlight == {g \in Procs : pc[g] # "idle"}
Served(h) == h \in InFlight \/ Cardinality(InFlight) < MaxInFlight

\* Everything that happens to an order after it is placed: payment and
\* settlement, the lifecycle methods, cancellation, refund, the refund
\* callback and rating, by the owner, up to MaxInFlight requests at once.
NextAfter ==
    \/ \E o \in {1} : GatewayPay(o)
    \/ \E h \in {"n1"} : Served(h) /\ (Notify(h, {1}, {"ok"}) \/ Settle(h))
    \/ \E h \in {"x1"} : Served(h) /\ CancelRoute(h, {Owner}, {""})
    \/ \E h \in Staff, o \in {1}, op \in StaffOps :
          Served(h) /\ StaffCall(h, o, op)
    \/ \E h \in Refunders : Served(h) /\ RefundRoute(h, {Owner}, {10})
    \/ \E h \in RefundNotifiers :
          Served(h) /\ RefundNotify(h, {1}, {10}, {"ok"})
    \/ \E h \in Raters : Served(h) /\ RateRoute(h, {Owner}, {5})
SpecAfter == InitPlaced({LargeBody}) /\ [][NextAfter]_vars

\* Points: the owner's order is settled and the owner signs in, from two
\* devices on the first day, and spends points, up to MaxInFlight requests
\* at once.
NextPoints ==
    \/ \E o \in {1} : GatewayPay(o)
    \/ \E h \in {"n1"} : Served(h) /\ (Notify(h, {1}, {"ok"}) \/ Settle(h))
    \/ \E h \in SignIners : Served(h) /\ SignInRoute(h, {Owner}, {DayTicks})
    \/ \E h \in Spenders : Served(h) /\ SpendCall(h, {Owner}, SpendAmounts)
SpecPoints == InitPlaced({LargeBody}) /\ [][NextPoints]_vars

\* addPoints, one call after another: the owner's order is settled and the
\* owner signs in on the days of Times, one request at a time.
NextEarn ==
    \/ \E o \in {1} : GatewayPay(o)
    \/ \E h \in {"n1"} : Alone(h) /\ (Notify(h, {1}, {"ok"}) \/ Settle(h))
    \/ \E h \in {"s1"} : Alone(h) /\ SignInRoute(h, {Owner}, Times)
SpecEarn == InitPlaced({LargeBody}) /\ [][NextEarn]_vars

\* the three routes that call the gateway: payment creation, the status
\* poll with its settlement, and the refund route, on placed orders and on
\* a delivered one
NextGateway ==
    \/ \E o \in OrderIds : GatewayPay(o)
    \/ \E h \in Payers : PayCreate(h, OrderIds, Users)
    \/ \E h \in Pollers : Poll(h, OrderIds, Users) \/ Settle(h)
    \/ \E h \in Refunders : RefundRoute(h, {Owner}, RefundAmounts)
SpecGateway == (Init \/ InitDelivered) /\ [][NextGateway]_vars

\* Ownership: the four routes that act on one order, called by its owner
\* and by another user, on placed orders and on a delivered one.
NextOwners ==
    \/ \E o \in OrderIds : GatewayPay(o)
    \/ \E h \in Payers : PayCreate(h, OrderIds, Users)
    \/ \E h \in Pollers : Poll(h, OrderIds, Users) \/ Settle(h)
    \/ \E h \in Refunders : RefundRoute(h, Users, RefundAmounts)
    \/ \E h \in {"x1"} : CancelRoute(h, Users, CancelReasons)
SpecOwners == (Init \/ InitDelivered) /\ [][NextOwners]_vars

\* Reservation: two order creations race on the finite-stock dish; nothing is
\* cancelled.
InitMenu ==
    /\ orders = [o \in OrderIds |-> NoOrder]
    /\ stock = [d \in Dishes |-> IF d = FiniteDish THEN InitStock ELSE Unlimited]
    /\ users = [u \in Users |-> NewUser]
    /\ ledger = <<>>
    /\ InitExt
    /\ InitProcs

NextReserve == \E h \in Creators : CreateRoute(h, {Owner}, Bodies(OneLineCarts))

SpecReserve == InitMenu /\ [][NextReserve]_vars

\* Pricing: one client places orders with and without a coupon and a points
\* deduction, the largest deduction exceeding every total.
PricedBodies == [items : FewCarts \cup {LargeBody.items},
                 couponId : {"null", "c1"}, pointsUsed : {0, 200, 30000}]

NextPricing == \E h \in {"c1"} : CreateRoute(h, {Owner}, PricedBodies)

SpecPricing == InitMenu /\ [][NextPricing]_vars

\* Fees: the gateway's success notifications for a paid order number, with
\* the order's amount or another one.
NextFee ==
    \/ \E o \in OrderIds : GatewayPay(o)
    \/ \E o \in OrderIds : ExpireKey(o)
    \/ \E h \in Notifiers : Notify(h, OrderIds, FeeKinds) \/ Settle(h)
SpecFee == Init /\ [][NextFee]_vars

\* Redelivery: the gateway delivers the success callback of order 1 once the
\* transaction has succeeded, and again after every answer other than
\* SUCCESS; the dedup key may expire as long as the gateway is waiting.
Unacked == out # [by |-> "n1", body |-> "SUCCESS"]
Redeliver == \E h \in {"n1"} : Unacked /\ (Notify(h, {1}, {"ok"}) \/ Settle(h))
NextRedeliver ==
    \/ \E o \in {1} : GatewayPay(o)
    \/ \E o \in {1} : Unacked /\ ExpireKey(o)
    \/ Redeliver
SpecRedeliver == Init /\ [][NextRedeliver]_vars /\ WF_vars(Redeliver)

\* A regular customer, whose earlier orders (450 paid and settled, their rows
\* outside OrderIds) leave the next level within reach, has placed two
\* orders that are waiting for payment.
SpentBefore == SilverSpent - 50

InitRegular ==
    LET pts == PointsFor(SpentBefore) IN
    /\ orders = [o \in OrderIds |->
                    NewOrder(Owner, IF o = 1 THEN LargeBody ELSE SmallBody)]
    /\ stock = [d \in Dishes |->
                   IF d = FiniteDish
                   THEN InitStock - SumQty(LargeBody.items, FiniteDish)
                                  - SumQty(SmallBody.items, FiniteDish)
                   ELSE Unlimited]
    /\ users = [u \in Users |->
                   IF u = Owner THEN AddPoints(UpdateSpent(NewUser, SpentBefore), pts)
                   ELSE NewUser]
    /\ ledger = <<EarnRecord(Owner, pts, "consume", pts)>>
    /\ InitExt
    /\ InitProcs

\* Levels: the gateway delivers the notifications of the two payments, which
\* are settled concurrently.
NextLevels ==
    \/ \E o \in OrderIds : GatewayPay(o)
    \/ \E h \in Notifiers : Notify(h, OrderIds, {"ok"}) \/ Settle(h)
SpecLevels == InitRegular /\ [][NextLevels]_vars

\* The regular customer's two orders are settled by callbacks and polls, one
\* request at a time.
NextRate ==
    \/ \E o \in OrderIds : GatewayPay(o)
    \/ \E o \in OrderIds : ExpireKey(o)
    \/ \E h \in {"n1"} : Alone(h) /\ (Notify(h, OrderIds, {"ok"}) \/ Settle(h))
    \/ \E h \in Pollers : Alone(h) /\ (Poll(h, OrderIds, {Owner}) \/ Settle(h))
SpecRate == InitRegular /\ [][NextRate]_vars

\* a cart that lists the finite-stock dish on two lines
SplitCarts == {<<[dishId |-> FiniteDish, quantity |-> MaxQty],
                 [dishId |-> FiniteDish, quantity |-> MaxQty]>>}

\* Split: one client places orders one after another, some with the dish
\* split over two lines.
NextSplit == \E h \in {"c1"} : CreateRoute(h, {Owner}, Bodies(OneLineCarts \cup SplitCarts))
SpecSplit == InitMenu /\ [][NextSplit]_vars

\* Streak: one user signs in, one request after another, at any time of
\* any day.
NextStreak == \E h \in {"s1"} : SignInRoute(h, {Owner}, Times)
SpecStreak == InitMenu /\ [][NextStreak]_vars

\* usePoints, one call after another: the owner signs in on the days of
\* Times and spends 3 or 7 points, one request at a time.
NextSpend ==
    \/ \E h \in {"s1"} : Alone(h) /\ SignInRoute(h, {Owner}, Times)
    \/ \E h \in Spenders : Alone(h) /\ SpendCall(h, {Owner}, {3, 7})
SpecSpend == InitMenu /\ [][NextSpend]_vars

\* ------------------------------------------ generateSign and verifySign
\* Parameter objects of up to three fields: a and b with an empty text, a
\* short one, or one that holds the separators & and =, and a sign field
\* left over from an earlier use.
SignValues == {<<>>, <<"1">>, <<"2">>, <<"1", "&", "b", "=", "2">>}
StaleSign == generateSign(<<>>, ForgedKey)
SignFields == ({"a", "b"} \X SignValues) \cup {<<"sign", StaleSign>>}
SignInputs ==
    {p \in UNION {[1 .. n -> SignFields] : n \in 0 .. 3} :
        \A i, j \in 1 .. Len(p) : p[i][1] = p[j][1] => i = j}

\* what may happen to a field between the signer and the verifier
Edits ==
    [op : {"none"}] \cup [op : {"set"}, key : {"a", "b"}, value : SignValues]
    \cup [op : {"delete"}, key : {"a", "b", "sign"}] \cup [op : {"resign"}]

Reversed(params) == [i \in 1 .. Len(params) |-> params[Len(params) + 1 - i]]

Edited(params, edit, reversed) ==
    LET q == CASE edit.op = "none" -> params
               [] edit.op = "set" -> SetField(params, edit.key, edit.value)
               [] edit.op = "delete" -> SelectSeq(params, LAMBDA kv : kv[1] # edit.key)
               [] edit.op = "resign" ->
                    SetField(params, "sign", generateSign(params, ForgedKey))
    IN  IF reversed THEN Reversed(q) ELSE q

\* params.sign, undefined when there is no such field
SignOf(params) ==
    IF "sign" \in KeysOf(params) THEN Field(params, "sign") ELSE <<"undefined">>

\* params.sign = this.generateSign(params, this.payKey)
SignParams(h, params) ==
    /\ pc[h] = "idle"
    /\ Step(h, "signed",
            [loc[h] EXCEPT !.req = [params |-> params],
                           !.res = [sent |-> SetField(params, "sign",
                                                      generateSign(params, PayKey))]])
    /\ UNCHANGED <<dbVars, extVars, envVars>>

\* the message on its way: up to two edits, and the fields in the same or
\* in the opposite order
Transit(h, edit, then, reversed) ==
    /\ pc[h] = "signed"
    /\ Step(h, "received",
            [loc[h] EXCEPT !.res =
                [sent |-> @.sent, edit |-> edit,
                 received |-> Edited(Edited(@.sent, edit, FALSE), then, reversed)]])
    /\ UNCHANGED <<dbVars, extVars, envVars>>

\* this.verifySign(params, params.sign)
VerifyParams(h) ==
    /\ pc[h] = "received"
    /\ Done(h, IF verifySign(loc[h].res.received, SignOf(loc[h].res.received))
               THEN "verified" ELSE "rejected")
    /\ UNCHANGED <<dbVars, extVars, envVars>>

NextSign ==
    \E h \in Payers :
        \/ \E params \in SignInputs : SignParams(h, params)
        \/ \E edit, then \in Edits, reversed \in BOOLEAN :
              Transit(h, edit, then, reversed)
        \/ VerifyParams(h)
SpecSign == InitMenu /\ [][NextSign]_vars

\* Stock: orders are created and cancelled concurrently.
NextStock ==
    \/ \E h \in Creators : CreateRoute(h, {Owner}, Bodies(FewCarts))
    \/ \E h \in {"x1"} : CancelRoute(h, {Owner}, {""})

SpecStock == InitMenu /\ [][NextStock]_vars

\* Conservation: orders are created, cancelled, paid at the gateway and
\* settled by callbacks and polls, one request at a time.
NextConserve ==
    \/ \E o \in OrderIds : GatewayPay(o)
    \/ \E h \in {"c1"} : Alone(h) /\ CreateRoute(h, {Owner}, Bodies(OneLineCarts))
    \/ \E h \in {"x1"} : Alone(h) /\ CancelRoute(h, {Owner}, {""})
    \/ \E h \in {"n1"} : Alone(h) /\ (Notify(h, OrderIds, {"ok"}) \/ Settle(h))
    \/ \E h \in Pollers : Alone(h) /\ (Poll(h, OrderIds, {Owner}) \/ Settle(h))
SpecConserve == InitMenu /\ [][NextConserve]_vars

\* carts with a line of the unlimited dish, of one unit or of more units
\* than the finite dish ever has, alone or after a line of the finite dish
SentinelCarts ==
    {<<[dishId |-> UnlimitedDish, quantity |-> r]>> : r \in {1, InitStock + 1}}
    \cup {<<[dishId |-> FiniteDish, quantity |-> q],
             [dishId |-> UnlimitedDish, quantity |-> r]>> :
               q \in 1..MaxQty, r \in {1, InitStock + 1}}

\* Sentinel: such orders are created and cancelled concurrently.
NextSentinel ==
    \/ \E h \in Creators : Served(h) /\ CreateRoute(h, {Owner}, Bodies(SentinelCarts))
    \/ \E h \in {"x1"} : Served(h) /\ CancelRoute(h, {Owner}, {""})
SpecSentinel == InitMenu /\ [][NextSentinel]_vars

\* ------------------------------------------------------------- properties
\* the 'earn' records written for the owner of order o
EarnEntries(o) ==
    {i \in 1..Len(ledger) : ledger[i].userId = orders[o].userId /\ ledger[i].type = "earn"}

\* the whole settlement bundle of order o is on record
Settled(o) ==
    /\ users[orders[o].userId].totalSpent >= orders[o].payAmount
    /\ PointsFor(orders[o].payAmount) > 0 =>
           /\ Cardinality(EarnEntries(o)) = 1
           /\ orders[o].pointsEarned = PointsFor(orders[o].payAmount)

\* C1: when a notify delivery and a status poll both see the successful
\* payment of one unpaid order, settlement is applied once: the user's
\* totalSpent grows by payAmount once and at most one earn record is written.
C1_SettledOnce ==
    \A o \in OrderIds : Exists(o) =>
        /\ users[orders[o].userId].totalSpent <= orders[o].payAmount
        /\ Cardinality(EarnEntries(o)) <= 1

\* no request is inside the settlement bundle
NoSettlementInFlight == \A h \in Procs : pc[h] \in {"idle", "setex", "find", "query"}

\* C2: once the order is settled, every later notify delivery and status poll
\* for it, run one at a time, leaves the order, the user and the point ledger
\* as they are and answers success (SUCCESS for a notify, paid for a poll).
C2_LaterTriggersIdempotent ==
    [][\A o \in OrderIds :
          (Exists(o) /\ orders[o].payStatus = "paid" /\ Settled(o)
                     /\ NoSettlementInFlight) =>
              /\ dbVars' = dbVars
              /\ out'.by \in Notifiers => out'.body = "SUCCESS"
              /\ out'.by \in Pollers => out'.body = "paid"]_vars

\* C3: inside the dedup window at most one notify delivery for an order number
\* is treated as fresh: handlePaymentNotify returns the order number for
\* settlement only when no delivery before it has set the key.
C3_OneFreshDelivery ==
    [][\A h \in Notifiers :
          (pc[h] = "setex" /\ pc'[h] = "find") => ~redisKey[loc[h].tgt]]_vars

\* C4: settlement is all-or-nothing: whenever no handler is in flight, the
\* order is paid exactly if the user's totalSpent includes its payAmount and,
\* when it earns points, one earn record exists and pointsEarned holds them.
C4_SettlementAtomic ==
    AllIdle =>
        \A o \in OrderIds : Exists(o) =>
            (orders[o].payStatus = "paid" <=> Settled(o))

\* C5: under concurrent reservations against the finite-stock dish the
\* quantities of the reservations that succeed never add up to more than the
\* stock at the start, and once all have ended the stock is the initial stock
\* minus that sum.
C5_NoOversell ==
    /\ reserved <= InitStock
    /\ AllIdle => stock[FiniteDish] = InitStock - reserved

\* C6: the stored stock of the finite-stock dish is never negative, whatever
\* the interleaving of order creations and cancellations.
C6_StockNonNegative == stock[FiniteDish] >= 0

\* an order creation has taken the last unit of the finite-stock dish
C6_Witness ==
    /\ stock[FiniteDish] = 0
    /\ out.by \in Creators
    /\ out.body = "ok"

\* C7: decreaseStock(q) on a finite stock s that nobody else writes meanwhile
\* raises the insufficient-stock error exactly if s < q, leaving the stock s,
\* and otherwise stores s - q.
C7_DecreaseStock ==
    [][\A h \in Creators :
          /\ (pc[h] = "citem" /\ pc'[h] # "citem"
                 /\ loc[h].req.items[loc[h].idx].dishId = FiniteDish) =>
                LET q == loc[h].req.items[loc[h].idx].quantity
                    s == stock[FiniteDish]
                IN  /\ stock' = stock
                    /\ IF q <= s
                       THEN pc'[h] = "cdec" /\ loc'[h].d.stock = s
                       ELSE pc'[h] = "idle" /\ out' = [by |-> h, body |-> "500"]
          /\ (pc[h] = "cdec" /\ pc'[h] # "cdec" /\ failures' = failures
                 /\ loc[h].d.stock = stock[FiniteDish]) =>
                LET q == loc[h].req.items[loc[h].idx].quantity
                IN  /\ q <= stock[FiniteDish]
                    /\ stock'[FiniteDish] = stock[FiniteDish] - q]_vars

\* one reservation has gone through and another has just been refused by
\* decreaseStock for lack of stock
C7_Witness ==
    /\ out.by \in Creators
    /\ out.body = "500"
    /\ failures = 0
    /\ reserved > 0
    /\ stock[FiniteDish] = InitStock - reserved

\* the edges of the business status
AllowedEdges ==
    { <<"pending", "confirmed">>, <<"confirmed", "preparing">>,
      <<"preparing", "ready">>, <<"ready", "delivering">>,
      <<"delivering", "completed">>, <<"pending", "cancelled">>,
      <<"confirmed", "cancelled">>, <<"completed", "refunded">> }

\* C8: every change of an order's business status, by whatever operation, is
\* one of the allowed edges.
C8_OnlyAllowedEdges ==
    [][\A o \in OrderIds :
          (Exists(o) /\ orders'[o].status # orders[o].status) =>
              <<orders[o].status, orders'[o].status>> \in AllowedEdges]_vars

\* C9: a cancelled or refunded order keeps its status for ever, and a
\* completed order can only become refunded.
C9_TerminalStatesKept ==
    [][\A o \in OrderIds : Exists(o) =>
          /\ orders[o].status \in {"cancelled", "refunded"} =>
                 orders'[o].status = orders[o].status
          /\ orders[o].status = "completed" =>
                 orders'[o].status \in {"completed", "refunded"}]_vars

\* C10: a cancel request that finds every order in a status from preparing on
\* is answered with an error at once and leaves the orders and the stock as
\* they are.
C10_CancelRejected ==
    [][\A h \in Cancellers :
          (/\ pc[h] = "idle"
           /\ pc'[h] # "idle" \/ out'.by = h
           /\ \A o \in OrderIds : Exists(o) =>
                  orders[o].status \in {"preparing", "ready", "delivering",
                                        "completed", "cancelled", "refunded"}) =>
              /\ pc'[h] = "idle"
              /\ out'.body \in {"404", "403", "500"}
              /\ orders' = orders
              /\ stock' = stock]_vars

\* the owner's cancel request has just been refused on an order in preparation
C10_Witness ==
    /\ out = [by |-> "x1", body |-> "500"]
    /\ failures = 0
    /\ orders[1].status = "preparing"

\* C11: however many cancel requests are made on the order, its line items
\* are added back to the finite-stock dish once at most: the stock never
\* exceeds what it was before the order was placed.
C11_RestoredOnce == stock[FiniteDish] <= InitStock

\* C12: a notify callback whose sign does not match the signature recomputed
\* with the shared secret is answered FAIL at once; it records no dedup key
\* and leaves the orders, the users and the point ledger as they are.
C12_BadSignRejected ==
    [][\A h \in {"n1"} :
          (pc'[h] # pc[h] \/ out'.by = h) =>
              /\ pc'[h] = "idle"
              /\ out' = [by |-> h, body |-> "FAIL"]
              /\ redisKey' = redisKey
              /\ dbVars' = dbVars]_vars

\* a forged callback for the order has just been refused although the
\* gateway transaction has succeeded and the order is still unpaid
C12_Witness ==
    /\ out = [by |-> "n1", body |-> "FAIL"]
    /\ gwPaid[1]
    /\ orders[1].payStatus = "unpaid"
    /\ ~redisKey[1]

\* C13: every invocation of the notify and refund-notify endpoints is
\* answered with one of the two fixed XML acknowledgments, SUCCESS or FAIL.
C13_AlwaysXmlAck ==
    out.by \in Notifiers \cup RefundNotifiers => out.body \in {"SUCCESS", "FAIL"}

\* C14: an order's payStatus becomes paid only in the settlement step of a
\* notify callback or a status poll for that order number, and only when the
\* gateway holds a successful transaction for it (the callback passed the
\* sign and code checks, or the query returned trade_state SUCCESS).
C14_PaidOnlyByGateway ==
    [][\A o \in OrderIds :
          (Exists(o) /\ orders[o].payStatus # "paid" /\ orders'[o].payStatus = "paid") =>
              /\ gwPaid[o]
              /\ \E h \in Notifiers \cup Pollers : pc[h] = "pay" /\ loc[h].tgt = o]_vars

\* the notify callback has just marked the order paid
C14_Witness ==
    /\ pc["n1"] = "loaduser"
    /\ orders[1].payStatus = "paid"
    /\ loc["n1"].o.payStatus = "paid"

\* C15: a refund request for more than the order's payAmount is refused
\* before any gateway refund call: the request's first step changes neither
\* the orders nor the gateway, it goes on to the gateway only with an amount
\* within payAmount, and no refund call for more ever reaches the gateway.
C15_OverRefundRejected ==
    [][/\ \A h \in Refunders :
             (pc[h] = "idle" /\ (pc'[h] # "idle" \/ out'.by = h)) =>
                 /\ orders' = orders
                 /\ gwRefunds' = gwRefunds
                 /\ pc'[h] # "idle" =>
                        loc'[h].req.refundAmount <= orders[loc'[h].tgt].payAmount
       /\ \A o \in OrderIds : \A i \in 1..Len(gwRefunds'[o]) :
             gwRefunds'[o][i] <= orders[o].payAmount]_vars

\* the owner's refund request on the delivered order has just been refused
\* (only the amount check can refuse it), and the gateway has not been called
C15_Witness ==
    /\ out = [by |-> "r1", body |-> "400"]
    /\ orders[1].status = "completed"
    /\ gwRefunds[1] = <<>>

\* C16: every order's refundAmount is at most its payAmount, whether the
\* refund route, the refund-notify callback or Order.requestRefund wrote it.
C16_RefundBounded ==
    \A o \in OrderIds : Exists(o) => orders[o].refundAmount <= orders[o].payAmount

\* a refund-notify callback has just recorded a partial refund on an order
\* the refund route has marked refunded
C16_Witness ==
    /\ out = [by |-> "rn1", body |-> "SUCCESS"]
    /\ orders[1].status = "refunded"
    /\ orders[1].refundAmount > 0
    /\ orders[1].refundAmount < orders[1].payAmount

\* the bodies by which a route reports a failure to its caller
FailureReports == {"500"}

\* C17: a gateway call that fails, by a thrown network error or timeout or by
\* a non-SUCCESS return/result code, is answered with a failure report and
\* changes no order and no user. A call that did not succeed is answered in
\* the step that made it; the status poll's answer "unpaid" is that of a
\* successful query reporting another trade state.
C17_GatewayFailureReported ==
    [][\A h \in Payers \cup Pollers \cup Refunders :
          (pc[h] \in {"unified", "query", "rgateway"} /\ out'.by = h
              /\ out'.body \notin {"ok", "unpaid"}) =>
             /\ out'.body \in FailureReports
             /\ dbVars' = dbVars]_vars

\* C18: every created order has discount = couponAmount + pointsUsed x 0.01,
\* total = subtotal + deliveryFee and payAmount = max(0, total - discount),
\* which is never negative.
C18_Totals ==
    \A o \in OrderIds : Exists(o) =>
       /\ orders[o].discount =
              orders[o].couponAmount + PointsDiscount(orders[o].pointsUsed)
       /\ orders[o].total = orders[o].subtotal + orders[o].deliveryFee
       /\ orders[o].payAmount = Max(0, orders[o].total - orders[o].discount)
       /\ orders[o].payAmount >= 0

\* the fields of an order fixed at creation
CreationFields(o) ==
    <<o.payAmount, o.total, o.subtotal, o.deliveryFee, o.discount,
      o.pointsUsed, o.items>>

\* C19: no step taken after an order exists changes its payAmount, total,
\* subtotal, deliveryFee, discount, pointsUsed or line-item snapshot.
C19_CreationFieldsKept ==
    [][\A o \in OrderIds :
          Exists(o) => /\ Exists(o)'
                       /\ CreationFields(orders'[o]) = CreationFields(orders[o])]_vars

\* an order that was paid, delivered, rated and refunded
C19_Witness ==
    /\ orders[1].payStatus = "paid"
    /\ orders[1].status = "refunded"
    /\ orders[1].rating > 0
    /\ orders[1].refundAmount > 0

\* the sum of the signed points of the first n records that are user u's
RECURSIVE LedgerSum(_, _)
LedgerSum(u, n) ==
    IF n = 0 THEN 0
    ELSE LedgerSum(u, n - 1) + (IF ledger[n].userId = u THEN ledger[n].points ELSE 0)

\* no request that touches points is being served
PointsQuiet == \A h \in {"n1"} \cup SignIners \cup Spenders : pc[h] = "idle"

\* C20: whenever the earn, spend, sign-in and settlement requests made so far
\* have all finished, none of them cut short by a store failure, every
\* user's PointRecord entries sum to the user's points balance; and the
\* records are only appended to.
C20_LedgerMatchesBalance ==
    [][/\ (PointsQuiet' /\ failures' = 0) =>
             \A u \in Users : LedgerSum(u, Len(ledger))' = users'[u].points
       /\ Len(ledger') >= Len(ledger)
       /\ SubSeq(ledger', 1, Len(ledger)) = ledger]_vars

RECURSIVE OrderedQty(_)
OrderedQty(n) ==
    IF n = 0 THEN 0
    ELSE OrderedQty(n - 1)
         + (IF Exists(n) THEN SumQty(orders[n].items, FiniteDish) ELSE 0)

\* C22: when a create request is refused for lack of stock (no store write
\* having thrown), the order rows and the stock are those of the orders that
\* were answered as created: the refused request has left no row and has
\* taken no stock.
C22_FailedCreateLeavesNothing ==
    [][\A h \in {"c1"} :
          (out'.by = h /\ out'.body \in {"400", "500"} /\ failures' = 0) =>
             /\ OrderedQty(Cardinality(OrderIds))' = reserved'
             /\ stock'[FiniteDish] = InitStock - reserved']_vars

\* C23: in every state each user's level is the threshold function of the
\* user's totalSpent.
C23_LevelFollowsSpent ==
    \A u \in Users : users[u].level = calculateUserLevel(users[u].totalSpent)

\* C24: no step decreases a user's stored totalSpent.
C24_SpentNeverDecreases ==
    [][\A u \in Users : users'[u].totalSpent >= users[u].totalSpent]_vars

\* the positions of a notify request from the paid transition to the end of
\* the settlement
SettlePositions == {"pay", "loaduser", "spent", "addpts", "record", "savepts"}

\* C25: a verified payment notification whose total_fee is not the order's
\* payAmount settles nothing: while it is handled, no order, user or ledger
\* row is written.
C25_WrongFeeNotSettled ==
    [][\A h \in Notifiers :
          (/\ pc[h] \in SettlePositions
           /\ loc[h].res.totalFee # orders[loc[h].tgt].payAmount * 100
           /\ pc'[h] # pc[h]) =>
             dbVars' = dbVars]_vars

\* the points an addPoints call in flight adds: SIGN_IN_POINTS in signIn,
\* floor(payAmount * rate) in a settlement
Adding(h) ==
    IF h \in SignIners THEN SignInPoints ELSE PointsFor(loc[h].o.payAmount)

\* C26: a call addPoints(p) on the user of balance b and lifetime total t
\* leaves the row with points b + p and totalPoints t + p, and inserts
\* exactly one PointRecord, of type 'earn', with points p and balance b + p.
C26_AddPoints ==
    [][\A h \in {"n1", "s1"} :
          /\ (\A g \in {"n1", "s1"} : pc[g] \notin {"signrec", "record"}) =>
                ledger' = ledger
          /\ (pc[h] \in {"signin", "addpts"} /\ pc'[h] \in {"signrec", "record"}) =>
                /\ users'[Owner].points = users[Owner].points + Adding(h)'
                /\ users'[Owner].totalPoints = users[Owner].totalPoints + Adding(h)'
                /\ ledger' = ledger
          /\ (pc[h] \in {"signrec", "record"} /\ pc'[h] # pc[h]
                 /\ failures' = failures) =>
                /\ users' = users
                /\ users[Owner].points = loc[h].u.points
                /\ Len(ledger') = Len(ledger) + 1
                /\ SubSeq(ledger', 1, Len(ledger)) = ledger
                /\ ledger'[Len(ledger')].userId = Owner
                /\ ledger'[Len(ledger')].type = "earn"
                /\ ledger'[Len(ledger')].points = Adding(h)
                /\ ledger'[Len(ledger')].balance = users[Owner].points]_vars

\* a settlement of 2 points and a sign-in of 5 have both been recorded
C26_Witness ==
    /\ Len(ledger) = 2
    /\ users[Owner].points = PointsFor(orders[1].payAmount) + SignInPoints
    /\ users[Owner].totalPoints = users[Owner].points
    /\ \A h \in Procs : pc[h] = "idle"

\* C27: a call usePoints(p) on a balance b < p fails and leaves the balance
\* and the ledger as they were; on b >= p it leaves points b - p and
\* totalPoints unchanged and inserts exactly one PointRecord, of type
\* 'spend', with points -p and balance b - p; with calls made one after
\* another the balance is never negative.
C27_UsePoints ==
    [][\A h \in Spenders :
          LET b == users[Owner].points
              p == loc[h].req.points
          IN
          /\ users'[Owner].points >= 0
          /\ pc[h] # "spendrec" => \A i \in 1 .. Len(ledger') :
                                      i > Len(ledger) => ledger'[i].type # "spend"
          /\ (pc[h] = "spend" /\ pc'[h] # pc[h] /\ b < p) =>
                /\ pc'[h] = "idle"
                /\ out'.by = h /\ out'.body = "error"
                /\ users' = users /\ ledger' = ledger
          /\ (pc[h] = "spend" /\ pc'[h] # pc[h] /\ b >= p /\ failures' = failures) =>
                /\ pc'[h] = "spendrec"
                /\ users'[Owner].points = b - p
                /\ users'[Owner].totalPoints = users[Owner].totalPoints
                /\ ledger' = ledger
          /\ (pc[h] = "spendrec" /\ pc'[h] # pc[h] /\ failures' = failures) =>
                /\ users' = users
                /\ b = loc[h].u.points
                /\ ledger' = Append(ledger, [userId |-> Owner, type |-> "spend",
                                             points |-> 0 - p, reason |-> "spend",
                                             balance |-> b])]_vars

\* a call has spent points and a later one has failed on the balance
C27_Witness ==
    /\ \E i \in 1 .. Len(ledger) : ledger[i].type = "spend"
    /\ out = [by |-> "y1", body |-> "error"]
    /\ failures = 0
    /\ users[Owner].points < 3

\* floor(amount * 0.05): the whole number n with n <= amount * 5 / 100 < n + 1
FivePercentFloor(amount) ==
    CHOOSE n \in 0 .. amount : 100 * n <= 5 * amount /\ 5 * amount < 100 * (n + 1)

\* the orders whose settlement has credited points
Credited == {o \in OrderIds : Exists(o) /\ orders[o].pointsEarned > 0}

\* C28: a settlement credits exactly floor(payAmount * 0.05) points: when
\* that is positive, one earn entry of that size is written and the order's
\* pointsEarned is set to it; when it is zero, no ledger entry is written
\* and pointsEarned stays 0, while the order still becomes paid and
\* totalSpent still grows by payAmount.
C28_PointsCredited ==
    [][\A h \in {"n1"} \cup Pollers :
          LET o == loc[h].tgt
              pts == FivePercentFloor(orders[o].payAmount)
          IN
          /\ (\A g \in {"n1"} \cup Pollers : pc[g] # "record") => ledger' = ledger
          /\ (pc[h] = "pay" /\ pc'[h] = "loaduser") =>
                orders'[o].payStatus = "paid" /\ orders'[o].pointsEarned = 0
          /\ (pc[h] = "spent" /\ pc'[h] # pc[h] /\ failures' = failures) =>
                /\ orders[o].payStatus = "paid"
                /\ users'[Owner].totalSpent =
                      users[Owner].totalSpent + orders[o].payAmount
                /\ IF pts > 0 THEN pc'[h] = "addpts"
                   ELSE /\ pc'[h] = "idle" /\ out'.body = OkResp(h)
                        /\ orders'[o].pointsEarned = 0
          /\ (pc[h] = "addpts" /\ pc'[h] = "record") =>
                users'[Owner].points = users[Owner].points + pts /\ pts > 0
          /\ (pc[h] = "record" /\ pc'[h] = "savepts") =>
                ledger' = Append(ledger, [userId |-> Owner, type |-> "earn",
                                          points |-> pts, reason |-> "consume",
                                          balance |-> users[Owner].points])
          /\ (pc[h] = "savepts" /\ pc'[h] # pc[h] /\ failures' = failures) =>
                orders'[o].pointsEarned = pts
          /\ (failures' = 0 /\ \A g \in Procs : pc'[g] = "idle") =>
                /\ Len(ledger') = 1 + Cardinality(Credited')
                /\ \A i \in OrderIds :
                      (Exists(i) /\ orders'[i].payStatus = "paid") =>
                          orders'[i].pointsEarned =
                              FivePercentFloor(orders'[i].payAmount)]_vars

\* both orders are settled: the one of 59 has earned 2 points in one ledger
\* entry, the one of 10 has earned none and has grown totalSpent all the same
C28_Witness ==
    /\ orders[1].payStatus = "paid" /\ orders[1].pointsEarned = 2
    /\ orders[2].payStatus = "paid" /\ orders[2].pointsEarned = 0
    /\ Len(ledger) = 2
    /\ users[Owner].totalSpent =
          SpentBefore + orders[1].payAmount + orders[2].payAmount
    /\ \A h \in Procs : pc[h] = "idle"

\* the line that the reservation or restoring loop of request h is at
LineAt(h) ==
    IF h \in Creators THEN loc[h].req.items[loc[h].idx] ELSE loc[h].o.items[loc[h].idx]

\* C29: on a dish of unlimited stock (-1) hasStock and decreaseStock succeed
\* for every quantity, and decreaseStock and increaseStock leave the stock
\* at -1; the stock of a finite dish never takes the value -1 through
\* decreaseStock or increaseStock.
C29_UnlimitedSentinel ==
    [][/\ stock'[UnlimitedDish] = Unlimited
       /\ stock'[FiniteDish] # Unlimited
       /\ \A h \in Creators :
             /\ (pc[h] = "ccheck" /\ pc'[h] # pc[h]
                   /\ LineAt(h).dishId = UnlimitedDish) =>
                      pc'[h] \in {"ccheck", "ccreate"}
             /\ (pc[h] = "citem" /\ pc'[h] # pc[h]
                   /\ LineAt(h).dishId = UnlimitedDish) =>
                      /\ stock' = stock
                      /\ pc'[h] = "idle" => out' = [by |-> h, body |-> "ok"]
       /\ \A h \in {"x1"} :
             (pc[h] = "xitem" /\ pc'[h] # pc[h]
                /\ LineAt(h).dishId = UnlimitedDish) =>
                   stock' = stock /\ pc'[h] # "xinc"]_vars

\* an order with a line of more units of the unlimited dish than the finite
\* dish ever had has been created, and another has been cancelled
C29_Witness ==
    /\ \E o \in OrderIds :
          /\ Exists(o) /\ orders[o].status # "cancelled"
          /\ \E i \in 1 .. Len(orders[o].items) :
                /\ orders[o].items[i].dishId = UnlimitedDish
                /\ orders[o].items[i].quantity > InitStock
    /\ \E o \in OrderIds : Exists(o) /\ orders[o].status = "cancelled"
    /\ out = [by |-> "c1", body |-> "ok"]
    /\ stock[UnlimitedDish] = Unlimited

\* the (key, value) pairs of a parameter object with a non-empty value and a
\* key other than sign
SignedPairs(params) ==
    {params[i] : i \in {j \in 1 .. Len(params) :
                          params[j][1] # "sign" /\ params[j][2] # <<>>}}

\* the keys whose signed pair is not the same in the two objects
ChangedKeys(sent, received) ==
    {k \in {"a", "b"} :
        (\E v \in SignValues : <<k, v>> \in SignedPairs(sent) \ SignedPairs(received))
        \/ (\E v \in SignValues : <<k, v>> \in SignedPairs(received) \ SignedPairs(sent))}

\* the signature made of params, as the signing step leaves it in sent,
\* depends on the signed pairs and the secret alone, and sent verifies
SignOfPairs(params, sent) ==
    /\ \A q \in SignInputs :
          SignedPairs(q) = SignedPairs(params) => generateSign(q, PayKey) = SignOf(sent)
    /\ generateSign(params, ForgedKey) # SignOf(sent)
    /\ SignedPairs(sent) = SignedPairs(params)
    /\ verifySign(sent, SignOf(sent))

\* C30: the signature depends only on the set of (key, value) pairs with a
\* non-empty value and a key other than sign, and on the secret, whatever
\* the order of the fields and whether or not a sign field is there; the
\* parameters carrying their own signature verify; and, the digest being
\* collision-free, after signed fields have been changed, added or removed,
\* or when the sign is missing, they do not.
C30_Signature ==
    [][\A h \in Payers :
          /\ (pc[h] = "idle" /\ pc'[h] = "signed") =>
                SignOfPairs(loc'[h].req.params, loc'[h].res.sent)
          /\ (pc[h] = "received" /\ pc'[h] = "idle") =>
                LET sent == loc[h].res.sent
                    received == loc[h].res.received
                IN  (out'.body = "verified") <=>
                       /\ SignedPairs(received) = SignedPairs(sent)
                       /\ SignOf(received) = SignOf(sent)]_vars

\* C30, amended: as C30, the parameters failing to verify after one signed
\* field has been changed, added or removed while the others keep their
\* texts; parameters that verify carry the signature that was made.
C30_SignatureOfOneField ==
    [][\A h \in Payers :
          /\ (pc[h] = "idle" /\ pc'[h] = "signed") =>
                SignOfPairs(loc'[h].req.params, loc'[h].res.sent)
          /\ (pc[h] = "received" /\ pc'[h] = "idle") =>
                LET sent == loc[h].res.sent
                    received == loc[h].res.received
                IN  /\ out'.body = "verified" => SignOf(received) = SignOf(sent)
                    /\ Cardinality(ChangedKeys(sent, received)) <= 1 =>
                          ((out'.body = "verified") <=>
                              /\ SignedPairs(received) = SignedPairs(sent)
                              /\ SignOf(received) = SignOf(sent))]_vars

\* a message whose field a held the text 1&b=2 has arrived with a alone
\* changed and its fields in another order, and does not verify
C30_Witness ==
    /\ pc["b1"] = "received"
    /\ ChangedKeys(loc["b1"].res.sent, loc["b1"].res.received) = {"a"}
    /\ <<"a", <<"1", "&", "b", "=", "2">>>> \in SignedPairs(loc["b1"].res.sent)
    /\ SignedPairs(loc["b1"].res.received) # SignedPairs(loc["b1"].res.sent)
    /\ loc["b1"].res.received[1][1] = "sign"
    /\ verifySign(loc["b1"].res.sent, SignOf(loc["b1"].res.sent))
    /\ ~verifySign(loc["b1"].res.received, SignOf(loc["b1"].res.received))

\* C31: an order's status becomes 'refunded' only from 'completed': a refund
\* request on an order in any other status, such as a second request after
\* a successful refund, is rejected before any gateway refund call and
\* changes nothing.
C31_RefundedOnlyFromCompleted ==
    [][/\ \A o \in OrderIds :
             (Exists(o) /\ orders'[o].status = "refunded"
                 /\ orders[o].status # "refunded") => orders[o].status = "completed"
       /\ \A h \in Refunders :
             (pc[h] = "idle" /\ (pc'[h] # "idle" \/ out'.by = h)) =>
                 /\ dbVars' = dbVars /\ gwRefunds' = gwRefunds
                 /\ pc'[h] # "idle" => orders[loc'[h].tgt].status = "completed"]_vars

\* the edges of the payment status
PayEdges ==
    { <<"unpaid", "paid">>, <<"paid", "refunded">>, <<"paid", "partial_refunded">> }

\* C32: payStatus changes only along unpaid -> paid, paid -> refunded and
\* paid -> partial_refunded, and a confirmed refund moves it out of 'paid':
\* whenever an order's status is 'refunded', its payStatus is 'refunded' or
\* 'partial_refunded'.
C32_RefundedPayStatus ==
    [][\A o \in OrderIds :
          /\ (Exists(o) /\ orders'[o].payStatus # orders[o].payStatus) =>
                <<orders[o].payStatus, orders'[o].payStatus>> \in PayEdges
          /\ (Exists(o) /\ orders'[o].status = "refunded") =>
                orders'[o].payStatus \in {"refunded", "partial_refunded"}]_vars

\* order o is paid and its owner has the amount and the points on record
FullySettled(o) ==
    /\ orders[o].payStatus = "paid"
    /\ users[orders[o].userId].totalSpent = orders[o].payAmount
    /\ users[orders[o].userId].points = PointsFor(orders[o].payAmount)
    /\ orders[o].pointsEarned = PointsFor(orders[o].payAmount)

\* C33: once the gateway has a success callback to deliver for the unpaid
\* order, and redelivers it whenever it is answered FAIL, the order is
\* eventually paid with totalSpent and points credited, even when a
\* settlement attempt fails after the dedup key was recorded.
C33_EventuallySettled == gwPaid[1] ~> FullySettled(1)

\* the sign-in rewards on record for user u
SignInEntries(u) ==
    {i \in 1 .. Len(ledger) : ledger[i].userId = u /\ ledger[i].reason = "signin"}

\* C34: of the concurrent sign-in requests of one user on one calendar day
\* at most one succeeds: the streak advances once and exactly one sign-in
\* reward is appended to the ledger. (All sign-ins of SpecPoints are made
\* on the first day.)
C34_OneSignInADay ==
    \A u \in Users :
        /\ Cardinality(SignInEntries(u)) <= 1
        /\ users[u].signInCount <= 1

\* the sum of the first n refund amounts the gateway has accepted for order o
RECURSIVE RefundedSum(_, _)
RefundedSum(o, n) == IF n = 0 THEN 0 ELSE gwRefunds[o][n] + RefundedSum(o, n - 1)

\* C35: for any sequence or interleaving of refund requests on one order,
\* at most one gateway refund is issued for it and the refund amounts sent
\* to the gateway for it sum to at most its payAmount.
C35_OneGatewayRefund ==
    \A o \in OrderIds :
        Exists(o) =>
            /\ Len(gwRefunds[o]) <= 1
            /\ RefundedSum(o, Len(gwRefunds[o])) <= orders[o].payAmount

\* the finite-dish quantity on the lines of the first n orders that are not
\* cancelled
RECURSIVE LiveQty(_)
LiveQty(n) ==
    IF n = 0 THEN 0
    ELSE LiveQty(n - 1)
         + (IF Exists(n) /\ orders[n].status # "cancelled"
            THEN SumQty(orders[n].items, FiniteDish) ELSE 0)

\* C36: stock conservation: in every state with no request in flight (and
\* no store write having failed), the stock of the finite dish plus its
\* quantity in the line items of all orders that are not cancelled is the
\* dish's initial stock.
C36_StockConserved ==
    ((\A h \in Procs : pc[h] = "idle") /\ failures = 0) =>
        stock[FiniteDish] + LiveQty(Cardinality(OrderIds)) = InitStock

\* C37: a refund is sent to the gateway only for an order whose payStatus
\* is 'paid'; requestRefund on a completed order that was never paid is
\* rejected without a gateway call.
C37_RefundOnlyWhenPaid ==
    [][\A o \in OrderIds :
          gwRefunds'[o] # gwRefunds[o] => orders[o].payStatus = "paid"]_vars

\* C38: once its creation request has finished, an order with pointsUsed =
\* p > 0 is backed by a 'spend' ledger entry of p points of its user (which
\* usePoints writes only when the balance is at least p).
C38_PointsUsedAreSpent ==
    (\A h \in Procs : pc[h] = "idle") =>
        \A o \in OrderIds :
            (Exists(o) /\ orders[o].pointsUsed > 0) =>
                \E i \in 1..Len(ledger) :
                    /\ ledger[i].userId = orders[o].userId
                    /\ ledger[i].type = "spend"
                    /\ ledger[i].points = 0 - orders[o].pointsUsed

\* the requests of the four routes that check the order's owner
OwnerChecked == Payers \cup Pollers \cup Refunders \cup {"x1"}

\* C39: a payment creation, status poll, refund or cancel request goes past
\* its first step only when the caller is the order's owner; a request that
\* is answered at its first step (the 403 of a non-owner among them) changes
\* no order, stock, user or ledger row, no dedup key, and calls no gateway.
C39_OwnerOnly ==
    [][\A h \in OwnerChecked :
          /\ (pc[h] = "idle" /\ pc'[h] # "idle") =>
                loc'[h].req.caller = orders[loc'[h].tgt].userId
          /\ (pc[h] = "idle" /\ pc'[h] = "idle" /\ out'.by = h) =>
                (dbVars' = dbVars /\ extVars' = extVars)]_vars

\* another user's refund request on the paid, completed order was answered 403
\* and nothing was sent to the gateway
C39_Witness ==
    /\ out = [by |-> "r1", body |-> "403"]
    /\ orders[1].status = "completed"
    /\ orders[1].payStatus = "paid"
    /\ gwRefunds[1] = <<>>

\* C40: a dedup key appears only at the setex step of a callback that passed
\* the signature, return_code and result_code checks, so only for an order
\* the gateway reports paid; a callback that fails a check is answered FAIL
\* at once, never reaches the setex step and leaves every dedup key as it
\* was.
C40_KeyOnlyAfterVerification ==
    [][/\ \A o \in OrderIds :
             (redisKey'[o] /\ ~redisKey[o]) =>
                 /\ gwPaid[o]
                 /\ \E h \in Notifiers :
                       pc[h] = "setex" /\ loc[h].tgt = o /\ pc'[h] = "find"
       /\ pc'["n1"] = "idle"
       /\ (pc["n1"] = "idle" /\ out'.by = "n1") =>
             (out'.body = "FAIL" /\ redisKey' = redisKey)]_vars

\* a callback that failed a check has just been answered FAIL while a
\* genuine callback for the paid order is about to record the order's key
C40_Witness ==
    /\ out = [by |-> "n1", body |-> "FAIL"]
    /\ gwPaid[1] /\ ~redisKey[1]
    /\ pc["n2"] = "setex" /\ loc["n2"].tgt = 1

====
